---- MODULE Spec2Model ----
(***************************************************************************)
(* Annotation-and-synthesis orchestration of the audiobook studio.         *)
(*                                                                         *)
(* Four programs of the repository are modelled, one run at a time:        *)
(*   "server"  src/backend/backend.py   (current FastAPI backend)          *)
(*   "legacy"  src/backend.py           (earlier revision of the backend)  *)
(*   "cli"     src/backend/local_annotator.py (LocalAnnotator and main)    *)
(*   "dia"     src/backend/dia_tts_server.py  (stand-alone Dia script)     *)
(*                                                                         *)
(* Text is a sequence of one-character strings; intensities are tenths     *)
(* (0.3 is 3); lengths are compared with integer arithmetic that agrees    *)
(* with the float comparisons of the source.                               *)
(***************************************************************************)
EXTENDS Integers, Sequences, FiniteSets, TLC

(***************************************************************************)
(* Characters and the str helpers of Python used by the source.            *)
(***************************************************************************)
UpperCase == <<"A","B","C","D","E","F","G","H","I","J","K","L","M",
               "N","O","P","Q","R","S","T","U","V","W","X","Y","Z">>

LowerCase == <<"a","b","c","d","e","f","g","h","i","j","k","l","m",
               "n","o","p","q","r","s","t","u","v","w","x","y","z">>

Digits == {"0","1","2","3","4","5","6","7","8","9"}

Range(f) == {f[i] : i \in DOMAIN f}

\* \s of the regular expressions and the whitespace of str.strip()
IsSpace(c) == c \in {" ", "\n", "\t"}

WordChars == Range(UpperCase) \cup Range(LowerCase) \cup Digits \cup {"_"}

\* \w of the regular expressions
IsWord(c) == c \in WordChars

\* the lower-case letter of each upper-case letter
LowerOf ==
    [c \in Range(UpperCase) |->
        LowerCase[CHOOSE i \in DOMAIN UpperCase : UpperCase[i] = c]]

LowerChar(c) == IF c \in DOMAIN LowerOf THEN LowerOf[c] ELSE c

\* str.lower()
lower(s) == [i \in DOMAIN s |-> LowerChar(s[i])]

\* s[i:] (1-based i)
From(s, i) == SubSeq(s, i, Len(s))

\* s occurs in t at position i
MatchAt(t, i, s) ==
    /\ i >= 1
    /\ i + Len(s) - 1 <= Len(t)
    /\ \A k \in 1..Len(s) : t[i + k - 1] = s[k]

\* str.startswith / str.endswith / the `in` operator on strings
startswith(t, s) == MatchAt(t, 1, s)

endswith(t, s) == MatchAt(t, Len(t) - Len(s) + 1, s)

Contains(t, s) == \E i \in 1..(Len(t) + 1) : MatchAt(t, i, s)

RECURSIVE lstrip(_)
lstrip(s) ==
    IF s # <<>> /\ IsSpace(s[1]) THEN lstrip(Tail(s)) ELSE s

RECURSIVE rstrip(_)
rstrip(s) ==
    IF s # <<>> /\ IsSpace(s[Len(s)]) THEN rstrip(SubSeq(s, 1, Len(s) - 1)) ELSE s

\* str.strip()
strip(s) == rstrip(lstrip(s))

\* the leftmost of a non-empty set of positions
Leftmost(positions) == CHOOSE m \in positions : \A o \in positions : m <= o

\* str.replace(old, new), old non-empty: leftmost non-overlapping occurrences
RECURSIVE replace(_, _, _)
replace(s, old, new) ==
    LET found == {i \in 1..Len(s) : MatchAt(s, i, old)}
    IN IF found = {} THEN s
       ELSE LET i == Leftmost(found)
            IN SubSeq(s, 1, i - 1) \o new
                   \o replace(From(s, i + Len(old)), old, new)

\* s.split(marker)[-1]: what follows the last occurrence of marker (s when absent)
SplitLast(s, marker) ==
    IF \E i \in 1..Len(s) : MatchAt(s, i, marker)
    THEN LET i == CHOOSE j \in 1..Len(s) :
                     MatchAt(s, j, marker)
                     /\ \A k \in 1..Len(s) : MatchAt(s, k, marker) => k <= j
         IN From(s, i + Len(marker))
    ELSE s

\* ' '.join(parts)
RECURSIVE join(_)
join(parts) ==
    IF parts = <<>> THEN <<>>
    ELSE IF Len(parts) = 1 THEN parts[1]
    ELSE parts[1] \o <<" ">> \o join(Tail(parts))

\* index just past the run of whitespace that starts at i
RECURSIVE SpaceRunEnd(_, _)
SpaceRunEnd(s, i) ==
    IF i <= Len(s) /\ IsSpace(s[i]) THEN SpaceRunEnd(s, i + 1) ELSE i

(***************************************************************************)
(* The regular-expression substitutions of the annotators.                 *)
(***************************************************************************)
Terminators == {".", "!", "?"}

ClausePunct == {",", ";", ":"}

PausesTag == <<"(","p","a","u","s","e","s",")">>

BriefPauseTag == <<"(","b","r","i","e","f"," ","p","a","u","s","e",")">>

InhalesTag == <<"(","i","n","h","a","l","e","s",")">>

LaughsTag == <<"(","l","a","u","g","h","s",")">>

SighsTag == <<"(","s","i","g","h","s",")">>

GaspsTag == <<"(","g","a","s","p","s",")">>

WhispersTag == <<"(","w","h","i","s","p","e","r","s",")">>

ClearsThroatTag == <<"(","c","l","e","a","r","s"," ","t","h","r","o","a","t",")">>

CoughsTag == <<"(","c","o","u","g","h","s",")">>

\* \b between s[i-1] and s[i]
WordBoundary(s, i) ==
    LET before == i > 1 /\ i - 1 <= Len(s) /\ IsWord(s[i - 1])
        after  == i >= 1 /\ i <= Len(s) /\ IsWord(s[i])
    IN before # after

\* the alternatives of \b(a1|a2|...)\b that match at i, ignoring case
AltsAt(s, i, alts) ==
    IF ~WordBoundary(s, i) THEN {}
    ELSE {k \in DOMAIN alts :
            /\ i + Len(alts[k]) - 1 <= Len(s)
            /\ \A j \in 1..Len(alts[k]) : LowerChar(s[i + j - 1]) = alts[k][j]
            /\ WordBoundary(s, i + Len(alts[k]))}

\* re.sub(r'\b(a1|a2|...)\b', r'\1 <tag>', s, flags=re.IGNORECASE) from index
\* i, `matches` being the positions from i on where the pattern matches: the
\* text up to the leftmost match is copied, the match is replaced, and the
\* scan goes on behind it
RECURSIVE SubWordsIn(_, _, _, _, _)
SubWordsIn(s, i, alts, tag, matches) ==
    LET found == {j \in matches : j >= i}
    IN IF found = {} THEN From(s, i)
       ELSE LET j == Leftmost(found)
                k == Leftmost(AltsAt(s, j, alts))
                n == Len(alts[k])
            IN SubSeq(s, i, j + n - 1) \o <<" ">> \o tag
                   \o SubWordsIn(s, j + n, alts, tag, found)

SubWords(s, i, alts, tag) ==
    SubWordsIn(s, i, alts, tag, {j \in i..Len(s) : AltsAt(s, j, alts) # {}})

\* re.sub(r'([<set>])\s+', r'\1 <tag> ', s), from index i
RECURSIVE SubPunctSpace(_, _, _, _)
SubPunctSpace(s, i, set, tag) ==
    LET found == {j \in i..(Len(s) - 1) : s[j] \in set /\ IsSpace(s[j + 1])}
    IN IF found = {} THEN From(s, i)
       ELSE LET j == Leftmost(found)
            IN SubSeq(s, i, j) \o <<" ">> \o tag \o <<" ">>
                   \o SubPunctSpace(s, SpaceRunEnd(s, j + 1), set, tag)

\* index just past the run of "\n" that starts at i
RECURSIVE NewlineRunEnd(_, _)
NewlineRunEnd(s, i) ==
    IF i <= Len(s) /\ s[i] = "\n" THEN NewlineRunEnd(s, i + 1) ELSE i

\* re.sub(r'\n\n+', r' (inhales) ', s), from index i
RECURSIVE SubParagraphs(_, _)
SubParagraphs(s, i) ==
    LET found == {j \in i..(Len(s) - 1) : s[j] = "\n" /\ s[j + 1] = "\n"}
    IN IF found = {} THEN From(s, i)
       ELSE LET j == Leftmost(found)
            IN SubSeq(s, i, j - 1) \o <<" ">> \o InhalesTag \o <<" ">>
                   \o SubParagraphs(s, NewlineRunEnd(s, j))

\* re.sub(r',(\s+)', r', (brief pause)\1', s), from index i
RECURSIVE SubCommaSpace(_, _)
SubCommaSpace(s, i) ==
    LET found == {j \in i..(Len(s) - 1) : s[j] = "," /\ IsSpace(s[j + 1])}
    IN IF found = {} THEN From(s, i)
       ELSE LET j == Leftmost(found)
                e == SpaceRunEnd(s, j + 1)
            IN SubSeq(s, i, j) \o <<" ">> \o BriefPauseTag
                   \o SubSeq(s, j + 1, e - 1) \o SubCommaSpace(s, e)

\* where the match of ([.!?])(\s+)(?!\() that starts at j ends: \s+ is greedy
\* and gives one character back when the run is followed by "("
TerminatorSpaceEnd(s, j) ==
    LET e == SpaceRunEnd(s, j + 1)
    IN IF e <= Len(s) /\ s[e] = "(" THEN e - 1 ELSE e

\* re.sub(r'([.!?])(\s+)(?!\()', r'\1 (pauses)\2', s), from index i
RECURSIVE SubTerminatorSpace(_, _)
SubTerminatorSpace(s, i) ==
    LET found == {j \in i..(Len(s) - 1) :
                    s[j] \in Terminators /\ TerminatorSpaceEnd(s, j) >= j + 2}
    IN IF found = {} THEN From(s, i)
       ELSE LET j == Leftmost(found)
                stop == TerminatorSpaceEnd(s, j)
            IN SubSeq(s, i, j) \o <<" ">> \o PausesTag
                   \o SubSeq(s, j + 1, stop - 1) \o SubTerminatorSpace(s, stop)

(***************************************************************************)
(* Rule-based annotation of the backend (identical in both revisions:      *)
(* src/backend/backend.py 290-316 and src/backend.py 247-273).             *)
(***************************************************************************)
basic_emotions ==
    << [alts |-> << <<"h","a"," ","h","a">>, <<"h","a","h","a">>,
                    <<"f","u","n","n","y">>, <<"j","o","k","e">> >>,
        tag |-> LaughsTag],
       [alts |-> << <<"o","h"," ","d","e","a","r">>, <<"o","h"," ","n","o">>,
                    <<"u","n","f","o","r","t","u","n","a","t","e","l","y">> >>,
        tag |-> SighsTag],
       [alts |-> << <<"w","o","w">>, <<"a","m","a","z","i","n","g">>,
                    <<"i","n","c","r","e","d","i","b","l","e">> >>,
        tag |-> GaspsTag],
       [alts |-> << <<"w","h","i","s","p","e","r">>, <<"q","u","i","e","t","l","y">>,
                    <<"s","o","f","t","l","y">> >>,
        tag |-> WhispersTag] >>

\* the rules 1..n of a table applied one after the other
RECURSIVE ApplyRules(_, _, _, _)
ApplyRules(s, table, n, enabled) ==
    IF n = 0 THEN s
    ELSE LET before == ApplyRules(s, table, n - 1, enabled)
         IN IF n \in enabled
            THEN SubWords(before, 1, table[n].alts, table[n].tag)
            ELSE before

add_rule_based_annotations(text, intensity) ==
    LET emotions == IF intensity > 3
                    THEN ApplyRules(text, basic_emotions, Len(basic_emotions),
                                    DOMAIN basic_emotions)
                    ELSE text
    IN IF intensity > 7
       THEN SubPunctSpace(SubPunctSpace(emotions, 1, Terminators, PausesTag),
                          1, ClausePunct, BriefPauseTag)
       ELSE emotions

add_natural_pauses(text) ==
    SubPunctSpace(SubPunctSpace(text, 1, Terminators, PausesTag),
                  1, ClausePunct, BriefPauseTag)

(***************************************************************************)
(* LocalAnnotator: rules, pauses and chunking (src/backend/local_annotator.py)*)
(***************************************************************************)
emotion_rules ==
    << [alts |-> << <<"h","a"," ","h","a">>, <<"h","a","h","a">>,
                    <<"f","u","n","n","y">>, <<"j","o","k","e">>,
                    <<"h","u","m","o","r">> >>,
        tag |-> LaughsTag, min |-> 2],
       [alts |-> << <<"o","h"," ","d","e","a","r">>, <<"o","h"," ","n","o">>,
                    <<"u","n","f","o","r","t","u","n","a","t","e","l","y">>,
                    <<"s","a","d","l","y">> >>,
        tag |-> SighsTag, min |-> 3],
       [alts |-> << <<"w","o","w">>, <<"a","m","a","z","i","n","g">>,
                    <<"i","n","c","r","e","d","i","b","l","e">>,
                    <<"u","n","b","e","l","i","e","v","a","b","l","e">> >>,
        tag |-> GaspsTag, min |-> 4],
       [alts |-> << <<"w","h","i","s","p","e","r">>, <<"q","u","i","e","t","l","y">>,
                    <<"s","o","f","t","l","y">> >>,
        tag |-> WhispersTag, min |-> 1],
       [alts |-> << <<"a","h","e","m">>, <<"u","m">>, <<"w","e","l","l">> >>,
        tag |-> ClearsThroatTag, min |-> 3],
       [alts |-> << <<"t","i","r","e","d">>, <<"e","x","h","a","u","s","t","e","d">>,
                    <<"w","e","a","r","y">> >>,
        tag |-> SighsTag, min |-> 2],
       [alts |-> << <<"s","u","r","p","r","i","s","e">>, <<"s","h","o","c","k","e","d">>,
                    <<"s","t","a","r","t","l","e","d">> >>,
        tag |-> GaspsTag, min |-> 4],
       [alts |-> << <<"c","o","u","g","h">>, <<"c","o","l","d">>, <<"s","i","c","k">> >>,
        tag |-> CoughsTag, min |-> 3] >>

\* The rules whose `intensity >= min_intensity` holds, so that random.random()
\* is drawn for them, and whose pattern occurs in the text.  (A draw for a
\* rule without a match changes nothing and is not recorded.)
DrawnRules(text, intensity) ==
    {r \in DOMAIN emotion_rules :
        /\ intensity >= emotion_rules[r].min
        /\ \E i \in 1..Len(text) : AltsAt(text, i, emotion_rules[r].alts) # {}}

\* The possible outcomes of the draws `random.random() < intensity`, as the
\* set of rules whose draw succeeded: random() lies in [0, 1).
Draws(text, intensity) ==
    IF intensity >= 10 THEN {DrawnRules(text, intensity)}
    ELSE IF intensity <= 0 THEN {{}}
    ELSE SUBSET DrawnRules(text, intensity)

\* annotate_with_rules with the draws that succeeded given as `lucky`
annotate_with_rules(text, intensity, lucky) ==
    LET emotions == ApplyRules(text, emotion_rules, Len(emotion_rules),
                               {r \in lucky : intensity >= emotion_rules[r].min})
        pauses == IF intensity > 3
                  THEN SubPunctSpace(emotions, 1, Terminators, PausesTag)
                  ELSE emotions
    IN IF intensity > 5 THEN SubParagraphs(pauses, 1) ELSE pauses

LocalAnnotator_add_natural_pauses(text) ==
    SubTerminatorSpace(SubCommaSpace(text, 1), 1)

\* index just past the run of terminators that starts at i
RECURSIVE TerminatorRunEnd(_, _)
TerminatorRunEnd(s, i) ==
    IF i <= Len(s) /\ s[i] \in Terminators THEN TerminatorRunEnd(s, i + 1) ELSE i

\* re.split(r'[.!?]+', s) from index i, `cur` being the piece read so far
RECURSIVE SplitSentences(_, _, _)
SplitSentences(s, i, cur) ==
    LET found == {j \in i..Len(s) : s[j] \in Terminators}
    IN IF found = {} THEN <<cur \o From(s, i)>>
       ELSE LET j == Leftmost(found)
            IN <<cur \o SubSeq(s, i, j - 1)>>
                   \o SplitSentences(s, TerminatorRunEnd(s, j), <<>>)

\* A faulty variant of Accumulate: the chunk under way when the loop ends is
\* not appended.
RECURSIVE Accumulate_without_last(_, _, _, _, _)
Accumulate_without_last(sentences, k, chunks, current_chunk, max_length) ==
    IF k > Len(sentences)
    THEN chunks
    ELSE LET sentence == strip(sentences[k])
         IN IF sentence = <<>>
            THEN Accumulate_without_last(sentences, k + 1, chunks, current_chunk,
                                         max_length)
            ELSE IF Len(current_chunk) + Len(sentence) < max_length
            THEN Accumulate_without_last(sentences, k + 1, chunks,
                            current_chunk \o sentence \o <<".", " ">>, max_length)
            ELSE Accumulate_without_last(sentences, k + 1,
                            IF current_chunk # <<>>
                            THEN Append(chunks, strip(current_chunk))
                            ELSE chunks,
                            sentence \o <<".", " ">>, max_length)

\* the loop of split_text_into_chunks from sentence k on
RECURSIVE Accumulate(_, _, _, _, _)
Accumulate(sentences, k, chunks, current_chunk, max_length) ==
    IF k > Len(sentences)
    THEN IF current_chunk # <<>> THEN Append(chunks, strip(current_chunk)) ELSE chunks
    ELSE LET sentence == strip(sentences[k])
         IN IF sentence = <<>>
            THEN Accumulate(sentences, k + 1, chunks, current_chunk, max_length)
            ELSE IF Len(current_chunk) + Len(sentence) < max_length
            THEN Accumulate(sentences, k + 1, chunks,
                            current_chunk \o sentence \o <<".", " ">>, max_length)
            ELSE Accumulate(sentences, k + 1,
                            IF current_chunk # <<>>
                            THEN Append(chunks, strip(current_chunk))
                            ELSE chunks,
                            sentence \o <<".", " ">>, max_length)

split_text_into_chunks(text, max_length) ==
    LET chunks == Accumulate(SplitSentences(text, 1, <<>>), 1, <<>>, <<>>, max_length)
    IN IF chunks # <<>> THEN chunks ELSE <<text>>

(***************************************************************************)
(* Inputs: request texts, settings dicts, what the remote model answers.   *)
(***************************************************************************)
\* texts are built from at most MaxFrags fragments of the vocabulary
MaxFrags == 2

Vocabulary ==
    { <<"W","o","w",","," ">>, <<"o","k","."," ","u","m">> }

RECURSIVE Compose(_)
Compose(n) ==
    IF n = 0 THEN {<<>>}
    ELSE LET shorter == Compose(n - 1)
         IN shorter \cup {t \o f : t \in shorter, f \in Vocabulary}

Texts == Compose(MaxFrags)

\* emotionIntensity in tenths
Intensities == {3, 8}

Keys == {"addEmotions", "addPauses", "emotionIntensity"}

\* a settings dict holds any subset of the keys
Settings ==
    {[k \in K |-> f[k]] :
        f \in [addEmotions : BOOLEAN, addPauses : BOOLEAN,
               emotionIntensity : Intensities],
        K \in SUBSET Keys}

\* values of settings.voice: the default and an identifier of no voice sample
Voices == {"default", "nonexistent_id"}

\* settings of a synthesis request that name a voice (annotation switched off)
VoiceSettings ==
    {[addEmotions |-> FALSE, addPauses |-> FALSE, voice |-> v] : v \in Voices}

\* the settings dicts a request body carries
RequestSettings == Settings \cup VoiceSettings

\* dict.get(key, default)
get(settings, key, default) ==
    IF key \in DOMAIN settings THEN settings[key] ELSE default

Quote == "\""

\* "Enhanced text:" (src/backend.py 233)
EnhancedMarker == <<"E","n","h","a","n","c","e","d"," ","t","e","x","t",":">>

\* "Annotated version:" (src/backend/local_annotator.py 160)
AnnotatedMarker ==
    <<"A","n","n","o","t","a","t","e","d"," ","v","e","r","s","i","o","n",":">>

\* Texts a remote model may generate for `text`: nothing, the text with a
\* tag, the same in quotes, a truncation, an unrelated word, the text twice,
\* the prompt's marker echoed before the answer.
RemoteTexts(text) ==
    { <<>>,
      text \o <<" ">> \o SighsTag,
      <<Quote>> \o text \o <<" ">> \o SighsTag \o <<Quote>>,
      SubSeq(text, 1, Len(text) \div 2),
      <<"n","o">>,
      text \o <<" ">> \o text,
      EnhancedMarker \o <<" ">> \o text \o <<" ">> \o SighsTag }

(***************************************************************************)
(* Network calls (the requests library).  A call carries the timeout it    *)
(* was given ({} when none was given) and whether the service answers.     *)
(***************************************************************************)
\* timeout=5 of the availability probe (src/backend/backend.py 85)
VersionTimeout == 5

\* timeout=30 of the generate call (src/backend/backend.py 266)
GenerateTimeout == 30

NoCall == [active |-> FALSE, url |-> "", timeout |-> {}, silent |-> FALSE]

Call(url, timeout, silent) ==
    [active |-> TRUE, url |-> url, timeout |-> timeout, silent |-> silent]

NoReply == [kind |-> "none", text |-> <<>>]

Reply(kind) == [kind |-> kind, text |-> <<>>]

\* How a call can end.  A silent service ends a call only through the
\* call's own timeout (requests raises Timeout); a call without timeout to a
\* silent service never returns.
Outcomes(call, answers) ==
    IF call.silent
    THEN IF call.timeout # {} THEN {Reply("timeout")} ELSE {}
    ELSE {Reply("error"), Reply("non200")} \cup answers

\* answers of GET /api/version and GET /api/tags
ProbeAnswers == {Reply("200")}

\* answers of POST /api/generate with status 200: a body that is not JSON,
\* JSON without "response", JSON with "response": null, or a generated text
GenerateAnswers(text) ==
    {Reply("bad_json"), Reply("no_field"), Reply("null_field")}
        \cup {[kind |-> "200", text |-> r] : r \in RemoteTexts(text)}

\* the replies after which no remote text is at hand
FailureKinds ==
    {"timeout", "error", "non200", "bad_json", "no_field", "null_field"}

\* result.get("response", "") of a reply that parsed
ResponseField(reply) == IF reply.kind = "200" THEN reply.text ELSE <<>>

\* the replies on which the source raises (caught by `except Exception`)
Raises(reply) == reply.kind \in {"timeout", "error", "bad_json", "null_field"}

(***************************************************************************)
(* add_emotional_annotations: what is returned once the reply is known.    *)
(* Each result is [out, by, cleaned]: the text returned, the backend that  *)
(* produced it, and the remote output after clean-up (<<>> when none).     *)
(***************************************************************************)
RuleBased(out) ==
    [out |-> out, by |-> "rule-based", cleaned |-> <<>>, lucky |-> {}]

Remote(out, cleaned) ==
    [out |-> out, by |-> "remote", cleaned |-> cleaned, lucky |-> {}]

\* A faulty variant of add_emotional_annotations_response: when the call
\* fails, the original text is handed back without the rules being applied.
add_emotional_annotations_response_unannotated(text, intensity, reply) ==
    IF Raises(reply) \/ reply.kind = "non200"
    THEN RuleBased(text)
    ELSE LET enhanced_text == strip(replace(strip(ResponseField(reply)),
                                            <<Quote>>, <<>>))
             rest == strip(From(enhanced_text, Len(text) + 1))
             validated == IF startswith(enhanced_text, text) THEN rest
                          ELSE enhanced_text
         IN IF startswith(enhanced_text, text) /\ rest # <<>>
            THEN Remote(text \o <<" ">> \o rest, text \o <<" ">> \o rest)
            ELSE IF /\ Contains(lower(validated), lower(text))
                    /\ 2 * Len(validated) <= 3 * Len(text)
            THEN Remote(validated, validated)
            ELSE [RuleBased(add_rule_based_annotations(text, intensity))
                      EXCEPT !.cleaned = validated]

\* src/backend/backend.py 268-288
add_emotional_annotations_response(text, intensity, reply) ==
    IF Raises(reply) \/ reply.kind = "non200"
    THEN RuleBased(add_rule_based_annotations(text, intensity))
    ELSE LET enhanced_text == strip(replace(strip(ResponseField(reply)),
                                            <<Quote>>, <<>>))
             rest == strip(From(enhanced_text, Len(text) + 1))
             validated == IF startswith(enhanced_text, text) THEN rest
                          ELSE enhanced_text
         IN IF startswith(enhanced_text, text) /\ rest # <<>>
            THEN Remote(text \o <<" ">> \o rest, text \o <<" ">> \o rest)
            ELSE IF /\ Contains(lower(validated), lower(text))
                    /\ 2 * Len(validated) <= 3 * Len(text)
            THEN Remote(validated, validated)
            ELSE [RuleBased(add_rule_based_annotations(text, intensity))
                      EXCEPT !.cleaned = validated]

\* src/backend.py 228-245
legacy_add_emotional_annotations_response(text, intensity, reply) ==
    IF Raises(reply) \/ reply.kind = "non200"
    THEN RuleBased(add_rule_based_annotations(text, intensity))
    ELSE LET stripped == strip(ResponseField(reply))
             enhanced_text == IF Contains(stripped, EnhancedMarker)
                              THEN strip(SplitLast(stripped, EnhancedMarker))
                              ELSE stripped
         IN IF enhanced_text # <<>> /\ 10 * Len(enhanced_text) >= 8 * Len(text)
            THEN Remote(enhanced_text, enhanced_text)
            ELSE [RuleBased(add_rule_based_annotations(text, intensity))
                      EXCEPT !.cleaned = enhanced_text]

(***************************************************************************)
(* Speaker-tag preprocessing and the token budget of synthesis.            *)
(***************************************************************************)
\* '[S2] Here is what you wanted to hear. [S1] ' (src/backend/backend.py 439)
ShortHead ==
    <<"[","S","2","]"," ","H","e","r","e"," ","i","s"," ","w","h","a",
      "t"," ","y","o","u"," ","w","a","n","t","e","d"," ","t","o"," ",
      "h","e","a","r","."," ","[","S","1","]"," ">>

\* '. Amazing! [S2] That was perfect.' (src/backend/backend.py 439)
ShortTail ==
    <<"."," ","A","m","a","z","i","n","g","!"," ","[","S","2","]"," ",
      "T","h","a","t"," ","w","a","s"," ","p","e","r","f","e","c","t",
      ".">>

\* '[S2] Let me read this for you. [S1] ' (src/backend/backend.py 446)
SingleHead ==
    <<"[","S","2","]"," ","L","e","t"," ","m","e"," ","r","e","a","d",
      " ","t","h","i","s"," ","f","o","r"," ","y","o","u","."," ","[",
      "S","1","]"," ">>

\* ". That's great! [S2] Hope you enjoyed that." (src/backend/backend.py 446)
SingleTail ==
    <<"."," ","T","h","a","t","'","s"," ","g","r","e","a","t","!"," ",
      "[","S","2","]"," ","H","o","p","e"," ","y","o","u"," ","e","n",
      "j","o","y","e","d"," ","t","h","a","t",".">>

\* '. Amazing!' (src/backend/backend.py 463)
AmazingCue ==
    <<"."," ","A","m","a","z","i","n","g","!">>

\* ' That was excellent.' (src/backend/backend.py 467)
ClosingLine ==
    <<" ","T","h","a","t"," ","w","a","s"," ","e","x","c","e","l","l",
      "e","n","t",".">>

S1Tag ==
    <<"[","S","1","]">>

S2Tag ==
    <<"[","S","2","]">>

\* str.split(sep) for a one-character separator, `cur` being the piece read
RECURSIVE SplitOn(_, _, _)
SplitOn(s, sep, cur) ==
    LET found == {j \in 1..Len(s) : s[j] = sep}
    IN IF found = {} THEN <<cur \o s>>
       ELSE LET j == Leftmost(found)
            IN <<cur \o SubSeq(s, 1, j - 1)>> \o SplitOn(From(s, j + 1), sep, <<>>)

\* [p.strip() for p in pieces if p.strip()]
RECURSIVE StripNonEmpty(_)
StripNonEmpty(pieces) ==
    IF pieces = <<>> THEN <<>>
    ELSE IF strip(pieces[1]) = <<>> THEN StripNonEmpty(Tail(pieces))
    ELSE <<strip(pieces[1])>> \o StripNonEmpty(Tail(pieces))

Other(speaker) == IF speaker = S2Tag THEN S1Tag ELSE S2Tag

\* the loop of preprocess_text_for_dia over sentences[i..] (i is 0-based)
RECURSIVE AlternateSpeakers(_, _, _, _)
AlternateSpeakers(sentences, i, current_speaker, result) ==
    IF i >= Len(sentences)
    THEN result \o <<" ">> \o Other(current_speaker) \o ClosingLine
    ELSE LET switch == i > 0 /\ i % 2 = 1
             speaker == IF switch THEN Other(current_speaker) ELSE current_speaker
             marked == IF switch THEN result \o <<" ">> \o speaker \o <<" ">>
                       ELSE result
             cue == IF i = Len(sentences) \div 2 THEN AmazingCue ELSE <<>>
         IN AlternateSpeakers(sentences, i + 1, speaker,
                              marked \o sentences[i + 1] \o cue)

\* src/backend/backend.py 430-469
preprocess_text_for_dia(raw) ==
    LET text == strip(replace(replace(raw, <<"\n", "\n">>, <<" ">>),
                              <<"\n">>, <<" ">>))
        piped == replace(replace(replace(text, <<".">>, <<".", "|">>),
                                 <<"!">>, <<"!", "|">>),
                         <<"?">>, <<"?", "|">>)
        sentences == StripNonEmpty(SplitOn(piped, "|", <<>>))
    IN IF Len(text) < 20 THEN ShortHead \o text \o ShortTail
       ELSE IF Len(sentences) = 1 THEN SingleHead \o sentences[1] \o SingleTail
       ELSE AlternateSpeakers(sentences, 0, S2Tag, S2Tag \o <<" ">>)

\* src/backend.py 331-348
legacy_preprocess_text_for_dia(raw) ==
    LET tagged == IF ~startswith(strip(raw), S1Tag) /\ ~startswith(strip(raw), S2Tag)
                  THEN S1Tag \o <<" ">> \o raw
                  ELSE raw
        text == replace(replace(tagged, <<"\n", "\n">>, <<" ">>), <<"\n">>, <<" ">>)
        last_speaker == IF Contains(text, S2Tag) THEN S2Tag ELSE S1Tag
    IN IF ~endswith(strip(text), S1Tag) /\ ~endswith(strip(text), S2Tag)
       THEN text \o <<" ">> \o last_speaker
       ELSE text

\* A faulty variant of max_tokens: the upper bound 3072 is not applied.
max_tokens_uncapped(char_count) ==
    LET base_tokens == char_count * 25
    IN IF base_tokens > 1536 THEN base_tokens ELSE 1536

\* max(1536, min(char_count * 25, 3072)) (src/backend/backend.py 350-352)
max_tokens(char_count) ==
    LET base_tokens == char_count * 25
        capped == IF base_tokens < 3072 THEN base_tokens ELSE 3072
    IN IF capped > 1536 THEN capped ELSE 1536

(***************************************************************************)
(* State.                                                                  *)
(***************************************************************************)
VARIABLES
    prog,              \* the program that runs: "server", "legacy", "cli", "dia"
    pc,                \* where the program stands
    annotation_model,  \* backend global: "None" or the configured model name
    tts_model,         \* backend global: "None" or "model"
    tts_processor,     \* backend global (tts_tokenizer in src/backend.py)
    forward,           \* tts_model.forward: "original" or "wrapper"
    annotator,         \* the LocalAnnotator instance
    request,           \* [endpoint, text, settings] being handled
    caller,            \* who called annotate_text: "client" or "generate_audio"
    chunks,            \* LocalAnnotator.annotate: chunks
    annotated_chunks,  \* LocalAnnotator.annotate: annotated_chunks
    annotated_text,    \* annotate_text: annotated_text; annotate: result
    processed_text,    \* the text handed to synthesis
    inflight,          \* the network call being waited for
    log,               \* per annotated text or chunk: calls made, reply, result
    synth,             \* synthesis of this request: calls, outcome, files
    response           \* what the caller of the entry point receives

vars == <<prog, pc, annotation_model, tts_model, tts_processor, forward,
          annotator, request, caller, chunks, annotated_chunks, annotated_text,
          processed_text, inflight, log, synth, response>>

Programs == {"server", "legacy", "cli", "dia"}

\* the model name of ANNOTATION_MODEL when one is configured
ModelName == "llama3.2:1b"

NoAnnotator ==
    [requested |-> "", model_type |-> "", model |-> "None",
     tokenizer |-> "None", ollama_model |-> "None"]

NoRequest == [endpoint |-> "", text |-> <<>>, settings |-> <<>>]

\* no synthesis attempted yet: no model.generate call, nothing returned or
\* raised by the synthesis function, no temporary or output file
NoSynth ==
    [generate_calls |-> 0, kind |-> "none", status |-> 0, detail |-> <<>>,
     audio |-> "none", cause |-> <<>>, temp_file |-> "none", output |-> "none",
     text |-> <<>>, max_tokens |-> 0]

NoResponse ==
    [kind |-> "none", status |-> 0, detail |-> <<>>, annotated |-> <<>>,
     audio |-> "none", model_used |-> ""]

\* raise HTTPException(status_code=status, detail=detail)
HTTPException(status, detail) == [status |-> status, detail |-> detail]

\* str(e) of an HTTPException: "<status>: <detail>"
Str(e) == <<ToString(e.status)>> \o e.detail

\* the handlers' `except Exception as e: raise HTTPException(500, f"<what>: {e}")`
Wrapped(what, e) == HTTPException(500, <<what>> \o Str(e))

Failure(e) ==
    [NoResponse EXCEPT !.kind = "error", !.status = e.status, !.detail = e.detail]

\* one entry of the log
Entry(text, calls, reply, result) ==
    [text |-> text, calls |-> calls, reply |-> reply, by |-> result.by,
     out |-> result.out, cleaned |-> result.cleaned, lucky |-> result.lucky]

Pending(text) ==
    [text |-> text, calls |-> <<"remote">>, reply |-> NoReply, by |-> "",
     out |-> <<>>, cleaned |-> <<>>, lucky |-> {}]

Init ==
    /\ prog \in Programs
    /\ pc = "boot"
    /\ annotation_model = "None"
    /\ tts_model = "None"
    /\ tts_processor = "None"
    /\ forward = "original"
    /\ annotator = NoAnnotator
    /\ request = NoRequest
    /\ caller = "client"
    /\ chunks = <<>>
    /\ annotated_chunks = <<>>
    /\ annotated_text = <<>>
    /\ processed_text = <<>>
    /\ inflight = NoCall
    /\ log = <<>>
    /\ synth = NoSynth
    /\ response = NoResponse

(***************************************************************************)
(* The backend (src/backend/backend.py; src/backend.py where prog is       *)
(* "legacy"): startup.                                                     *)
(***************************************************************************)
Backend == prog \in {"server", "legacy"}

\* startup_event up to the availability probe
startup_event ==
    /\ Backend /\ pc = "boot"
    /\ \E annotation_model_name \in {"", ModelName} :
          IF annotation_model_name # ""
          THEN /\ \E silent \in BOOLEAN :
                     inflight' = Call("/api/version", {VersionTimeout}, silent)
               /\ pc' = "startup_probe"
               /\ UNCHANGED annotation_model
          ELSE /\ annotation_model' = "None"
               /\ pc' = "startup_tts"
               /\ UNCHANGED inflight
    /\ UNCHANGED <<prog, tts_model, tts_processor, forward, annotator, request,
                   caller, chunks, annotated_chunks, annotated_text,
                   processed_text, log, synth, response>>

\* the call of startup_event once it returned or raised, as startup_event
\* holds it until it returns itself
Probed(call, reply) ==
    [active |-> FALSE, url |-> call.url, timeout |-> call.timeout,
     silent |-> call.silent, reply |-> reply.kind]

\* A faulty variant of startup_event_probed: the status of the answer is not
\* looked at, so that any answer marks the model available.
startup_event_probed_unchecked ==
    /\ Backend /\ pc = "startup_probe"
    /\ \E reply \in Outcomes(inflight, ProbeAnswers) :
          /\ annotation_model' = IF reply.kind \in {"200", "non200"}
                                 THEN ModelName ELSE "None"
          /\ inflight' = Probed(inflight, reply)
    /\ pc' = "startup_tts"
    /\ UNCHANGED <<prog, tts_model, tts_processor, forward, annotator, request,
                   caller, chunks, annotated_chunks, annotated_text,
                   processed_text, log, synth, response>>

\* startup_event: the probe returned or raised
startup_event_probed ==
    /\ Backend /\ pc = "startup_probe"
    /\ \E reply \in Outcomes(inflight, ProbeAnswers) :
          /\ annotation_model' = IF reply.kind = "200" THEN ModelName ELSE "None"
          /\ inflight' = Probed(inflight, reply)
    /\ pc' = "startup_tts"
    /\ UNCHANGED <<prog, tts_model, tts_processor, forward, annotator, request,
                   caller, chunks, annotated_chunks, annotated_text,
                   processed_text, log, synth, response>>

\* startup_event: loading Dia.  The processor is loaded before the model, so
\* a failing model load leaves the processor set (src/backend/backend.py);
\* the legacy revision sets tts_tokenizer only after both loaded.
startup_event_tts ==
    /\ Backend /\ pc = "startup_tts"
    /\ \E loaded \in {"both", "processor", "nothing"} :
          /\ loaded = "processor" => prog = "server"
          /\ tts_model' = IF loaded = "both" THEN "model" ELSE "None"
          /\ tts_processor' = IF loaded = "nothing" THEN "None" ELSE "processor"
    /\ inflight' = NoCall
    /\ pc' = "idle"
    /\ UNCHANGED <<prog, annotation_model, forward, annotator, request, caller,
                   chunks, annotated_chunks, annotated_text, processed_text,
                   log, synth, response>>

(***************************************************************************)
(* The backend: /annotate-text and the annotation stage.                   *)
(***************************************************************************)
\* a TextRequest arrives at one of the two endpoints
receive_request ==
    /\ Backend /\ pc = "idle"
    /\ \E endpoint \in {"annotate_text", "generate_audio"},
          text \in Texts, settings \in RequestSettings :
          /\ request' = [endpoint |-> endpoint, text |-> text,
                         settings |-> settings]
          /\ pc' = endpoint
    /\ UNCHANGED <<prog, annotation_model, tts_model, tts_processor, forward,
                   annotator, caller, chunks, annotated_chunks, annotated_text,
                   processed_text, inflight, log, synth, response>>

\* the endpoint's response has been sent: the handler's locals are gone and
\* the server waits for the next request; the globals stay as they are
send_response ==
    /\ Backend /\ pc = "responded"
    /\ pc' = "idle"
    /\ request' = NoRequest
    /\ caller' = "client"
    /\ annotated_text' = <<>>
    /\ processed_text' = <<>>
    /\ log' = <<>>
    /\ synth' = NoSynth
    /\ response' = NoResponse
    /\ UNCHANGED <<prog, annotation_model, tts_model, tts_processor, forward,
                   annotator, chunks, annotated_chunks, inflight>>

\* what leaves annotate_text when it raises e: to the client directly, or
\* through generate_audio's own `except Exception`
annotate_text_failure(e) ==
    IF caller = "generate_audio"
    THEN Failure(Wrapped("Failed to generate audio",
                         Wrapped("Failed to annotate text", e)))
    ELSE Failure(Wrapped("Failed to annotate text", e))

\* annotate_text up to the call of add_emotional_annotations
annotate_text ==
    /\ Backend /\ pc = "annotate_text"
    /\ IF request.text = <<>>
       THEN /\ response' = annotate_text_failure(
                               HTTPException(400, <<"Text is required">>))
            /\ pc' = "responded"
            /\ UNCHANGED annotated_text
       ELSE /\ annotated_text' = request.text
            /\ pc' = IF get(request.settings, "addEmotions", TRUE)
                     THEN "add_emotional_annotations"
                     ELSE "annotate_text_pauses"
            /\ UNCHANGED response
    /\ UNCHANGED <<prog, annotation_model, tts_model, tts_processor, forward,
                   annotator, request, caller, chunks, annotated_chunks,
                   processed_text, inflight, log, synth>>

\* settings.get('emotionIntensity', 0.7)
backend_intensity == get(request.settings, "emotionIntensity", 7)

\* add_emotional_annotations up to the POST to /api/generate
add_emotional_annotations ==
    /\ Backend /\ pc = "add_emotional_annotations"
    /\ IF annotation_model = "None"
       THEN LET result == RuleBased(add_rule_based_annotations(
                                        request.text, backend_intensity))
            IN /\ annotated_text' = result.out
               /\ log' = Append(log, Entry(request.text, <<"rules">>,
                                           NoReply, result))
               /\ pc' = "annotate_text_pauses"
               /\ UNCHANGED inflight
       ELSE /\ \E silent \in BOOLEAN :
                  inflight' = Call("/api/generate", {GenerateTimeout}, silent)
            /\ log' = Append(log, Pending(request.text))
            /\ pc' = "await_generate"
            /\ UNCHANGED annotated_text
    /\ UNCHANGED <<prog, annotation_model, tts_model, tts_processor, forward,
                   annotator, request, caller, chunks, annotated_chunks,
                   processed_text, synth, response>>

\* the calls of an entry once its reply was handled: the rules ran after the
\* remote call when the result is theirs
CallsAfter(calls, result) ==
    IF result.by = "rule-based" THEN Append(calls, "rules") ELSE calls

\* A faulty variant of add_emotional_annotations_reply: when the remote
\* output cannot be used, the service is called once more before the rules.
add_emotional_annotations_reply_retrying ==
    /\ Backend /\ pc = "await_generate"
    /\ \E reply \in Outcomes(inflight, GenerateAnswers(request.text)) :
          LET result ==
                  IF prog = "server"
                  THEN add_emotional_annotations_response(
                           request.text, backend_intensity, reply)
                  ELSE legacy_add_emotional_annotations_response(
                           request.text, backend_intensity, reply)
          IN IF result.by = "rule-based" /\ Len(log[Len(log)].calls) < 2
             THEN /\ log' = [log EXCEPT ![Len(log)].calls = Append(@, "remote")]
                  /\ UNCHANGED <<annotated_text, inflight, pc>>
             ELSE /\ annotated_text' = result.out
                  /\ log' = [log EXCEPT ![Len(log)] =
                                Entry(request.text,
                                      CallsAfter(log[Len(log)].calls, result),
                                      reply, result)]
                  /\ inflight' = NoCall
                  /\ pc' = "annotate_text_pauses"
    /\ UNCHANGED <<prog, annotation_model, tts_model, tts_processor, forward,
                   annotator, request, caller, chunks, annotated_chunks,
                   processed_text, synth, response>>

\* add_emotional_annotations from the reply on
add_emotional_annotations_reply ==
    /\ Backend /\ pc = "await_generate"
    /\ \E reply \in Outcomes(inflight, GenerateAnswers(request.text)) :
          LET result ==
                  IF prog = "server"
                  THEN add_emotional_annotations_response(
                           request.text, backend_intensity, reply)
                  ELSE legacy_add_emotional_annotations_response(
                           request.text, backend_intensity, reply)
          IN /\ annotated_text' = result.out
             /\ log' = [log EXCEPT ![Len(log)] =
                           Entry(request.text, CallsAfter(log[Len(log)].calls, result),
                                 reply, result)]
    /\ inflight' = NoCall
    /\ pc' = "annotate_text_pauses"
    /\ UNCHANGED <<prog, annotation_model, tts_model, tts_processor, forward,
                   annotator, request, caller, chunks, annotated_chunks,
                   processed_text, synth, response>>

\* A faulty variant of annotate_text_pauses: the pauses are inserted whatever
\* addPauses says.
annotate_text_pauses_always ==
    /\ Backend /\ pc = "annotate_text_pauses"
    /\ LET annotated == add_natural_pauses(annotated_text)
       IN /\ annotated_text' = annotated
          /\ IF caller = "generate_audio"
             THEN /\ processed_text' = annotated
                  /\ pc' = "generate_tts_audio"
                  /\ UNCHANGED response
             ELSE /\ response' = [NoResponse EXCEPT !.kind = "ok", !.status = 200,
                                                   !.annotated = annotated]
                  /\ pc' = "responded"
                  /\ UNCHANGED processed_text
    /\ UNCHANGED <<prog, annotation_model, tts_model, tts_processor, forward,
                   annotator, request, caller, chunks, annotated_chunks,
                   inflight, log, synth>>

\* annotate_text from the pause stage to its return
annotate_text_pauses ==
    /\ Backend /\ pc = "annotate_text_pauses"
    /\ LET annotated == IF get(request.settings, "addPauses", TRUE)
                        THEN add_natural_pauses(annotated_text)
                        ELSE annotated_text
       IN /\ annotated_text' = annotated
          /\ IF caller = "generate_audio"
             THEN /\ processed_text' = annotated
                  /\ pc' = "generate_tts_audio"
                  /\ UNCHANGED response
             ELSE /\ response' = [NoResponse EXCEPT !.kind = "ok", !.status = 200,
                                                   !.annotated = annotated]
                  /\ pc' = "responded"
                  /\ UNCHANGED processed_text
    /\ UNCHANGED <<prog, annotation_model, tts_model, tts_processor, forward,
                   annotator, request, caller, chunks, annotated_chunks,
                   inflight, log, synth>>

(***************************************************************************)
(* The backend: /generate-audio and generate_tts_audio.                    *)
(***************************************************************************)
\* A faulty variant of generate_audio: the annotation stage is run only for
\* addEmotions, so that a request for pauses alone is synthesised as it came.
generate_audio_emotions_only ==
    /\ Backend /\ pc = "generate_audio"
    /\ IF request.text = <<>>
       THEN /\ response' = Failure(Wrapped("Failed to generate audio",
                                HTTPException(400, <<"Text is required">>)))
            /\ pc' = "responded"
            /\ UNCHANGED <<caller, processed_text>>
       ELSE IF get(request.settings, "addEmotions", TRUE)
       THEN /\ caller' = "generate_audio"
            /\ pc' = "annotate_text"
            /\ UNCHANGED <<response, processed_text>>
       ELSE /\ processed_text' = request.text
            /\ pc' = "generate_tts_audio"
            /\ UNCHANGED <<response, caller>>
    /\ UNCHANGED <<prog, annotation_model, tts_model, tts_processor, forward,
                   annotator, request, chunks, annotated_chunks, annotated_text,
                   inflight, log, synth>>

\* generate_audio up to the call of annotate_text or generate_tts_audio
generate_audio ==
    /\ Backend /\ pc = "generate_audio"
    /\ IF request.text = <<>>
       THEN /\ response' = Failure(Wrapped("Failed to generate audio",
                                HTTPException(400, <<"Text is required">>)))
            /\ pc' = "responded"
            /\ UNCHANGED <<caller, processed_text>>
       ELSE IF \/ get(request.settings, "addEmotions", TRUE)
               \/ get(request.settings, "addPauses", TRUE)
       THEN /\ caller' = "generate_audio"
            /\ pc' = "annotate_text"
            /\ UNCHANGED <<response, processed_text>>
       ELSE /\ processed_text' = request.text
            /\ pc' = "generate_tts_audio"
            /\ UNCHANGED <<response, caller>>
    /\ UNCHANGED <<prog, annotation_model, tts_model, tts_processor, forward,
                   annotator, request, chunks, annotated_chunks, annotated_text,
                   inflight, log, synth>>

\* generate_tts_audio raises e, which generate_audio's `except Exception`
\* turns into its own HTTPException for the client
tts_raise(e, cause, temp_file) ==
    /\ synth' = [synth EXCEPT !.kind = "raise", !.status = e.status,
                              !.detail = e.detail, !.cause = cause,
                              !.temp_file = temp_file]
    /\ response' = Failure(Wrapped("Failed to generate audio", e))
    /\ pc' = "responded"

\* A faulty variant of generation_failed: the cause's message is dropped.
generation_failed_without_cause(cause) ==
    HTTPException(500, <<"Failed to generate audio">>)

\* the `except Exception as e` of generate_tts_audio for a stage that raised
\* an exception e whose str(e) is `cause`:
\* HTTPException(500, f"Failed to generate audio: {str(e)}")
generation_failed(cause) ==
    HTTPException(500, <<"Failed to generate audio">> \o cause)

\* A faulty variant of generate_tts_audio: a voice other than "default" is
\* looked up first, and the lookup of an unknown identifier raises.
generate_tts_audio_voice_required ==
    /\ Backend /\ pc = "generate_tts_audio"
    /\ IF get(request.settings, "voice", "default") # "default"
       THEN tts_raise(HTTPException(404, <<"Voice not found">>), <<>>, "none")
       ELSE IF tts_model = "None"
       THEN tts_raise(
                HTTPException(503, <<"TTS model not available. Please ensure Dia TTS is properly installed.">>),
                <<>>, "none")
       ELSE IF tts_processor = "None"
       THEN tts_raise(
                HTTPException(503, <<IF prog = "server"
                                     THEN "TTS processor not available"
                                     ELSE "TTS tokenizer not available">>),
                <<>>, "none")
       ELSE /\ synth' = [synth EXCEPT !.text =
                            IF prog = "server"
                            THEN preprocess_text_for_dia(processed_text)
                            ELSE legacy_preprocess_text_for_dia(processed_text)]
            /\ pc' = "tts_process_input"
            /\ UNCHANGED response
    /\ UNCHANGED <<prog, annotation_model, tts_model, tts_processor, forward,
                   annotator, request, caller, chunks, annotated_chunks,
                   annotated_text, processed_text, inflight, log>>

\* generate_tts_audio: the availability checks and the preprocessing
generate_tts_audio ==
    /\ Backend /\ pc = "generate_tts_audio"
    /\ IF tts_model = "None"
       THEN tts_raise(
                HTTPException(503, <<"TTS model not available. Please ensure Dia TTS is properly installed.">>),
                <<>>, "none")
       ELSE IF tts_processor = "None"
       THEN tts_raise(
                HTTPException(503, <<IF prog = "server"
                                     THEN "TTS processor not available"
                                     ELSE "TTS tokenizer not available">>),
                <<>>, "none")
       ELSE /\ synth' = [synth EXCEPT !.text =
                            IF prog = "server"
                            THEN preprocess_text_for_dia(processed_text)
                            ELSE legacy_preprocess_text_for_dia(processed_text)]
            /\ pc' = "tts_process_input"
            /\ UNCHANGED response
    /\ UNCHANGED <<prog, annotation_model, tts_model, tts_processor, forward,
                   annotator, request, caller, chunks, annotated_chunks,
                   annotated_text, processed_text, inflight, log>>

\* generate_tts_audio: the processor (tokenizer) call, the token budget and,
\* in the current revision, the patch of tts_model.forward
tts_process_input ==
    /\ Backend /\ pc = "tts_process_input"
    /\ \E raised \in BOOLEAN :
          IF raised
          THEN /\ tts_raise(generation_failed(<<"processor failed">>),
                            <<"processor failed">>, "none")
               /\ UNCHANGED forward
          ELSE /\ synth' = [synth EXCEPT !.max_tokens =
                               IF prog = "server" THEN max_tokens(Len(synth.text))
                               ELSE 0]
               /\ forward' = IF prog = "server" THEN "wrapper" ELSE forward
               /\ pc' = "tts_generate"
               /\ UNCHANGED response
    /\ UNCHANGED <<prog, annotation_model, tts_model, tts_processor, annotator,
                   request, caller, chunks, annotated_chunks, annotated_text,
                   processed_text, inflight, log>>

\* A faulty variant of tts_generate: the restore follows the generate call
\* without a `finally`, so a raising call leaves the wrapper installed.
tts_generate_without_finally ==
    /\ Backend /\ pc = "tts_generate"
    /\ \E raised \in BOOLEAN :
          IF raised
          THEN LET e == generation_failed(<<"generate failed">>)
               IN /\ synth' = [synth EXCEPT
                                 !.generate_calls = @ + 1, !.kind = "raise",
                                 !.status = e.status, !.detail = e.detail,
                                 !.cause = <<"generate failed">>]
                  /\ response' = Failure(Wrapped("Failed to generate audio", e))
                  /\ pc' = "responded"
                  /\ UNCHANGED forward
          ELSE /\ synth' = [synth EXCEPT !.generate_calls = @ + 1]
               /\ forward' = "original"
               /\ pc' = "tts_decode"
               /\ UNCHANGED response
    /\ UNCHANGED <<prog, annotation_model, tts_model, tts_processor, annotator,
                   request, caller, chunks, annotated_chunks, annotated_text,
                   processed_text, inflight, log>>

\* generate_tts_audio: tts_model.generate and the `finally` that restores
\* tts_model.forward
tts_generate ==
    /\ Backend /\ pc = "tts_generate"
    /\ forward' = "original"
    /\ \E raised \in BOOLEAN :
          IF raised
          THEN LET e == generation_failed(<<"generate failed">>)
               IN /\ synth' = [synth EXCEPT
                                 !.generate_calls = @ + 1, !.kind = "raise",
                                 !.status = e.status, !.detail = e.detail,
                                 !.cause = <<"generate failed">>]
                  /\ response' = Failure(Wrapped("Failed to generate audio", e))
                  /\ pc' = "responded"
          ELSE /\ synth' = [synth EXCEPT !.generate_calls = @ + 1]
               /\ pc' = "tts_decode"
               /\ UNCHANGED response
    /\ UNCHANGED <<prog, annotation_model, tts_model, tts_processor, annotator,
                   request, caller, chunks, annotated_chunks, annotated_text,
                   processed_text, inflight, log>>

\* generate_tts_audio: decoding the generated tokens.  The legacy revision
\* probes the model for decode_audio / decode and raises 503 inside the try
\* when it has neither.
tts_decode ==
    /\ Backend /\ pc = "tts_decode"
    /\ \E outcome \in {"decoded", "raised", "unsupported"} :
          /\ outcome = "unsupported" => prog = "legacy"
          /\ IF outcome = "raised"
             THEN tts_raise(generation_failed(<<"decode failed">>),
                            <<"decode failed">>, "none")
             ELSE IF outcome = "unsupported"
             THEN LET e == HTTPException(503,
                               <<"Dia TTS model does not support audio decoding">>)
                  IN tts_raise(generation_failed(Str(e)), Str(e), "none")
             ELSE /\ pc' = "tts_save"
                  /\ UNCHANGED <<synth, response>>
    /\ UNCHANGED <<prog, annotation_model, tts_model, tts_processor, forward,
                   annotator, request, caller, chunks, annotated_chunks,
                   annotated_text, processed_text, inflight, log>>

\* generate_tts_audio: writing the WAV (to a NamedTemporaryFile(delete=False)
\* that is read back and unlinked; to a BytesIO in the legacy revision) and
\* returning the bytes, which generate_audio sends as the response
tts_save ==
    /\ Backend /\ pc = "tts_save"
    /\ \E outcome \in {"saved", "save_raised", "read_raised"} :
          /\ outcome = "read_raised" => prog = "server"
          /\ IF outcome = "saved"
             THEN /\ synth' = [synth EXCEPT
                                 !.kind = "return", !.audio = "speech",
                                 !.temp_file = IF prog = "server" THEN "removed"
                                               ELSE "none"]
                  /\ response' = [NoResponse EXCEPT !.kind = "ok", !.status = 200,
                                                    !.audio = "speech"]
                  /\ pc' = "responded"
             ELSE LET cause == IF outcome = "save_raised" THEN <<"save failed">>
                               ELSE <<"read failed">>
                  IN tts_raise(generation_failed(cause), cause,
                               IF prog = "server" THEN "exists" ELSE "none")
    /\ UNCHANGED <<prog, annotation_model, tts_model, tts_processor, forward,
                   annotator, request, caller, chunks, annotated_chunks,
                   annotated_text, processed_text, inflight, log>>

(***************************************************************************)
(* LocalAnnotator and its command line (src/backend/local_annotator.py).   *)
(***************************************************************************)
\* max_length=200 of the call in annotate (src/backend/local_annotator.py 247)
ChunkMaxLength == 200

\* n copies of s
RECURSIVE Repeat(_, _)
Repeat(s, n) == IF n = 0 THEN <<>> ELSE s \o Repeat(s, n - 1)

\* A text of two sentences that annotate splits into two chunks: the first
\* sentence has 100 characters and the second 104, so that the second fails
\* len(current_chunk) + len(sentence) < 200.
LongText ==
    <<"W","o","w",","," ">> \o Repeat(<<"l","a"," ">>, 31) \o <<"l","a","."," ">>
        \o <<"u","m"," ">> \o Repeat(<<"l","a"," ">>, 33) \o <<"l","a">>

\* the texts given on the command line; the long one is given with the
\* settings dict of main, which holds all three keys
CliTexts == Texts \cup {LongText}

ModelTypes == {"rule-based", "phi-2", "tiny-llama", "ollama"}

\* main up to the construction of the annotator.  The settings dict is any
\* dict a caller of LocalAnnotator.annotate may pass (main itself always
\* passes the three keys; test_annotation passes its own).
main ==
    /\ prog = "cli" /\ pc = "boot"
    /\ \E text \in CliTexts, settings \in Settings, model \in ModelTypes :
          /\ text = LongText => DOMAIN settings = Keys
          /\ request' = [endpoint |-> "annotate", text |-> text,
                         settings |-> settings]
          /\ annotator' = [NoAnnotator EXCEPT !.requested = model,
                                              !.model_type = model]
    /\ pc' = "LocalAnnotator_init"
    /\ UNCHANGED <<prog, annotation_model, tts_model, tts_processor, forward,
                   caller, chunks, annotated_chunks, annotated_text,
                   processed_text, inflight, log, synth, response>>

\* LocalAnnotator.__init__ with load_phi2_model / load_tiny_llama, and
\* setup_ollama up to its GET, which is given no timeout
LocalAnnotator_init ==
    /\ prog = "cli" /\ pc = "LocalAnnotator_init"
    /\ \E HF_AVAILABLE \in BOOLEAN :
          IF annotator.model_type \in {"phi-2", "tiny-llama"} /\ HF_AVAILABLE
          THEN /\ \E loaded \in {"both", "tokenizer", "nothing"} :
                     annotator' =
                         [annotator EXCEPT
                            !.tokenizer = IF loaded = "nothing" THEN "None"
                                          ELSE "tokenizer",
                            !.model = IF loaded = "both" THEN "model" ELSE "None",
                            !.model_type = IF loaded = "both" THEN @
                                           ELSE "rule-based"]
               /\ pc' = "annotate"
               /\ UNCHANGED inflight
          ELSE IF annotator.model_type = "ollama"
          THEN /\ \E silent \in BOOLEAN :
                     inflight' = Call("/api/tags", {}, silent)
               /\ pc' = "setup_ollama"
               /\ UNCHANGED annotator
          ELSE /\ pc' = "annotate"
               /\ UNCHANGED <<annotator, inflight>>
    /\ UNCHANGED <<prog, annotation_model, tts_model, tts_processor, forward,
                   request, caller, chunks, annotated_chunks, annotated_text,
                   processed_text, log, synth, response>>

\* answers of GET /api/tags with status 200: a preferred model is listed,
\* none is, or the body cannot be read as expected
TagsAnswers == {Reply("200"), Reply("no_model"), Reply("bad_json")}

\* setup_ollama from the reply on
setup_ollama ==
    /\ prog = "cli" /\ pc = "setup_ollama"
    /\ \E reply \in Outcomes(inflight, TagsAnswers) :
          annotator' = IF reply.kind = "200"
                       THEN [annotator EXCEPT !.ollama_model = ModelName]
                       ELSE [annotator EXCEPT !.model_type = "rule-based"]
    /\ inflight' = NoCall
    /\ pc' = "annotate"
    /\ UNCHANGED <<prog, annotation_model, tts_model, tts_processor, forward,
                   request, caller, chunks, annotated_chunks, annotated_text,
                   processed_text, log, synth, response>>

\* settings.get('emotionIntensity', 0.5)
local_intensity == get(request.settings, "emotionIntensity", 5)

\* LocalAnnotator.annotate up to the loop over the chunks
annotate ==
    /\ prog = "cli" /\ pc = "annotate"
    /\ IF ~get(request.settings, "addEmotions", FALSE)
       THEN /\ annotated_text' = request.text
            /\ pc' = "main_output"
            /\ UNCHANGED <<chunks, annotated_chunks>>
       ELSE /\ chunks' = split_text_into_chunks(request.text, ChunkMaxLength)
            /\ annotated_chunks' = <<>>
            /\ pc' = "annotate_with_model"
            /\ UNCHANGED annotated_text
    /\ UNCHANGED <<prog, annotation_model, tts_model, tts_processor, forward,
                   annotator, request, caller, processed_text, inflight, log,
                   synth, response>>

\* annotate_with_rules as a result, `lucky` being the draws that succeeded
LocalRules(text, intensity, lucky) ==
    [out |-> annotate_with_rules(text, intensity, lucky), by |-> "rule-based",
     cleaned |-> <<>>, lucky |-> lucky]

\* What model.generate and the decoding of annotate_with_hf_model yield: an
\* exception, a text without the prompt's marker (the prompt was truncated),
\* or the prompt followed by a generated text.
HFOutcomes(text) ==
    {Reply("error"), Reply("no_marker")}
        \cup {[kind |-> "200", text |-> AnnotatedMarker \o <<" ">> \o r] :
                 r \in RemoteTexts(text)}

\* src/backend/local_annotator.py 157-168
annotate_with_hf_model_result(text, intensity, outcome, lucky) ==
    IF outcome.kind # "200" \/ ~Contains(outcome.text, AnnotatedMarker)
    THEN LocalRules(text, intensity, lucky)
    ELSE LET annotated == strip(SplitLast(outcome.text, AnnotatedMarker))
         IN IF annotated # <<>>
            THEN [Remote(annotated, annotated) EXCEPT !.by = "model"]
            ELSE LocalRules(text, intensity, lucky)

\* src/backend/local_annotator.py 195-203
annotate_with_ollama_response(text, intensity, reply, lucky) ==
    IF Raises(reply) \/ reply.kind = "non200"
    THEN LocalRules(text, intensity, lucky)
    ELSE LET result == strip(ResponseField(reply))
         IN IF result # <<>> THEN Remote(result, result)
            ELSE LocalRules(text, intensity, lucky)

\* the chunk the loop of annotate stands at
chunk == chunks[Len(annotated_chunks) + 1]

\* one turn of the loop of annotate: annotate_with_model(chunk, intensity),
\* up to the POST when the annotator uses Ollama
annotate_with_model ==
    /\ prog = "cli" /\ pc = "annotate_with_model"
    /\ Len(annotated_chunks) < Len(chunks)
    /\ IF annotator.model_type = "ollama"
       THEN /\ \E silent \in BOOLEAN :
                  inflight' = Call("/api/generate", {GenerateTimeout}, silent)
            /\ log' = Append(log, Pending(chunk))
            /\ pc' = "annotate_with_ollama"
            /\ UNCHANGED annotated_chunks
       ELSE IF annotator.model # "None" /\ annotator.tokenizer # "None"
       THEN /\ \E outcome \in HFOutcomes(chunk),
                  lucky \in Draws(chunk, local_intensity) :
                  LET result == annotate_with_hf_model_result(
                                    chunk, local_intensity, outcome, lucky)
                  IN /\ annotated_chunks' = Append(annotated_chunks, result.out)
                     /\ log' = Append(log,
                                   Entry(chunk,
                                         IF result.by = "rule-based"
                                         THEN <<"model", "rules">>
                                         ELSE <<"model">>,
                                         outcome, result))
            /\ UNCHANGED <<pc, inflight>>
       ELSE /\ \E lucky \in Draws(chunk, local_intensity) :
                  LET result == LocalRules(chunk, local_intensity, lucky)
                  IN /\ annotated_chunks' = Append(annotated_chunks, result.out)
                     /\ log' = Append(log, Entry(chunk, <<"rules">>, NoReply,
                                                 result))
            /\ UNCHANGED <<pc, inflight>>
    /\ UNCHANGED <<prog, annotation_model, tts_model, tts_processor, forward,
                   annotator, request, caller, chunks, annotated_text,
                   processed_text, synth, response>>

\* annotate_with_ollama from the reply on
annotate_with_ollama ==
    /\ prog = "cli" /\ pc = "annotate_with_ollama"
    /\ \E reply \in Outcomes(inflight, GenerateAnswers(chunk)),
          lucky \in Draws(chunk, local_intensity) :
          LET result == annotate_with_ollama_response(
                            chunk, local_intensity, reply, lucky)
          IN /\ annotated_chunks' = Append(annotated_chunks, result.out)
             /\ log' = [log EXCEPT ![Len(log)] =
                           Entry(chunk, CallsAfter(log[Len(log)].calls, result),
                                 reply, result)]
    /\ inflight' = NoCall
    /\ pc' = "annotate_with_model"
    /\ UNCHANGED <<prog, annotation_model, tts_model, tts_processor, forward,
                   annotator, request, caller, chunks, annotated_text,
                   processed_text, synth, response>>

\* ''.join(parts)
RECURSIVE Concatenated(_)
Concatenated(parts) ==
    IF parts = <<>> THEN <<>> ELSE parts[1] \o Concatenated(Tail(parts))

\* A faulty variant of annotate_join: the annotated chunks are concatenated
\* without the separating space.
annotate_join_without_space ==
    /\ prog = "cli" /\ pc = "annotate_with_model"
    /\ Len(annotated_chunks) = Len(chunks)
    /\ annotated_text' =
          LET joined == Concatenated(annotated_chunks)
          IN IF get(request.settings, "addPauses", FALSE)
             THEN LocalAnnotator_add_natural_pauses(joined)
             ELSE joined
    /\ pc' = "main_output"
    /\ UNCHANGED <<prog, annotation_model, tts_model, tts_processor, forward,
                   annotator, request, caller, chunks, annotated_chunks,
                   processed_text, inflight, log, synth, response>>

\* LocalAnnotator.annotate after the loop: the join and the pauses
annotate_join ==
    /\ prog = "cli" /\ pc = "annotate_with_model"
    /\ Len(annotated_chunks) = Len(chunks)
    /\ annotated_text' =
          IF get(request.settings, "addPauses", FALSE)
          THEN LocalAnnotator_add_natural_pauses(join(annotated_chunks))
          ELSE join(annotated_chunks)
    /\ pc' = "main_output"
    /\ UNCHANGED <<prog, annotation_model, tts_model, tts_processor, forward,
                   annotator, request, caller, chunks, annotated_chunks,
                   processed_text, inflight, log, synth, response>>

\* main: the JSON output with 'annotated' and 'model_used'
main_output ==
    /\ prog = "cli" /\ pc = "main_output"
    /\ response' = [NoResponse EXCEPT !.kind = "ok",
                                      !.annotated = annotated_text,
                                      !.model_used = annotator.model_type]
    /\ pc' = "done"
    /\ UNCHANGED <<prog, annotation_model, tts_model, tts_processor, forward,
                   annotator, request, caller, chunks, annotated_chunks,
                   annotated_text, processed_text, inflight, log, synth>>

(***************************************************************************)
(* The stand-alone Dia script (src/backend/dia_tts_server.py).             *)
(***************************************************************************)
\* preprocess_text (src/backend/dia_tts_server.py 86-103)
preprocess_text(raw) ==
    LET tagged == IF ~startswith(strip(raw), S1Tag) /\ ~startswith(strip(raw), S2Tag)
                  THEN S1Tag \o <<" ">> \o raw
                  ELSE raw
    IN replace(replace(tagged, <<"\n", "\n">>, <<" ">> \o S1Tag \o <<" ">>),
               <<"\n">>, <<" ">>)

\* main of the script: --mock writes mock audio, otherwise the model is set up
dia_main ==
    /\ prog = "dia" /\ pc = "boot"
    /\ \E text \in Texts, mock \in BOOLEAN :
          /\ request' = [endpoint |-> IF mock THEN "mock" ELSE "generate_audio",
                         text |-> text, settings |-> <<>>]
          /\ IF mock
             THEN /\ synth' = [synth EXCEPT !.kind = "return", !.output = "mock"]
                  /\ pc' = "done"
             ELSE /\ pc' = "setup_dia_model"
                  /\ UNCHANGED synth
    /\ UNCHANGED <<prog, annotation_model, tts_model, tts_processor, forward,
                   annotator, caller, chunks, annotated_chunks, annotated_text,
                   processed_text, inflight, log, response>>

\* setup_dia_model: (model, tokenizer, device) or (None, None, None)
setup_dia_model ==
    /\ prog = "dia" /\ pc = "setup_dia_model"
    /\ \E loaded \in BOOLEAN :
          /\ tts_model' = IF loaded THEN "model" ELSE "None"
          /\ tts_processor' = IF loaded THEN "tokenizer" ELSE "None"
    /\ pc' = "dia_generate_audio"
    /\ UNCHANGED <<prog, annotation_model, forward, annotator, request, caller,
                   chunks, annotated_chunks, annotated_text, processed_text,
                   inflight, log, synth, response>>

\* generate_audio of the script: every failure ends in generate_mock_audio,
\* and the function returns normally
dia_generate_audio ==
    /\ prog = "dia" /\ pc = "dia_generate_audio"
    /\ IF tts_model = "None" \/ tts_processor = "None"
       THEN synth' = [synth EXCEPT !.kind = "return", !.output = "mock"]
       ELSE \E outcome \in {"saved", "tokenize failed", "generate failed",
                            "decode failed", "save failed"} :
               synth' = [synth EXCEPT
                           !.text = preprocess_text(request.text),
                           !.generate_calls =
                               IF outcome = "tokenize failed" THEN 0 ELSE 1,
                           !.kind = "return",
                           !.cause = IF outcome = "saved" THEN <<>>
                                     ELSE <<outcome>>,
                           !.output = IF outcome = "saved" THEN "speech"
                                      ELSE "mock"]
    /\ pc' = "done"
    /\ UNCHANGED <<prog, annotation_model, tts_model, tts_processor, forward,
                   annotator, request, caller, chunks, annotated_chunks,
                   annotated_text, processed_text, inflight, log, response>>

(***************************************************************************)
(* The specification.                                                      *)
(***************************************************************************)
Next ==
    \/ startup_event
    \/ startup_event_probed
    \/ startup_event_tts
    \/ receive_request
    \/ send_response
    \/ annotate_text
    \/ add_emotional_annotations
    \/ add_emotional_annotations_reply
    \/ annotate_text_pauses
    \/ generate_audio
    \/ generate_tts_audio
    \/ tts_process_input
    \/ tts_generate
    \/ tts_decode
    \/ tts_save
    \/ main
    \/ LocalAnnotator_init
    \/ setup_ollama
    \/ annotate
    \/ annotate_with_model
    \/ annotate_with_ollama
    \/ annotate_join
    \/ main_output
    \/ dia_main
    \/ setup_dia_model
    \/ dia_generate_audio

Spec == Init /\ [][Next]_vars

(***************************************************************************)
(* Properties.                                                             *)
(***************************************************************************)
\* the annotate operation under way has returned to its caller
Answered ==
    \/ Backend /\ pc = "responded" /\ request.endpoint = "annotate_text"
    \/ prog = "cli" /\ pc = "done"

\* the settings carry the flag, set to `value`
FlagIs(key, value) ==
    key \in DOMAIN request.settings /\ request.settings[key] = value

\* addPauses as the entry point reads it
PausesWanted ==
    get(request.settings, "addPauses", prog # "cli")

\* the pause stage of the entry point
Paused(text) ==
    IF prog = "cli" THEN LocalAnnotator_add_natural_pauses(text)
    ELSE add_natural_pauses(text)

\* what the rule-based annotator of the program returns for the text of a
\* log entry and the intensity of the request (with the entry's draws)
RulesOutput(e) ==
    IF prog = "cli" THEN annotate_with_rules(e.text, local_intensity, e.lucky)
    ELSE add_rule_based_annotations(e.text, backend_intensity)

\* the entry's text was handled (the entry is not waiting for a reply)
Handled(e) == e.by # ""

\* no usable remote text came of the entry: the call failed, was never made
\* because no model was at hand, or answered with nothing
Failed(e) ==
    \/ e.reply.kind \in FailureKinds \cup {"none", "no_marker"}
    \/ e.reply.kind = "200" /\ strip(e.reply.text) = <<>>

\* C1: on every path that calls the remote model, a remote output that is,
\* after clean-up, shorter than 80% of the original text is never returned;
\* the rule-based annotation of the original text is returned instead.
C1_ShortRemoteOutputNeverReturned ==
    \A k \in DOMAIN log :
        LET e == log[k]
        IN (/\ Handled(e)
            /\ e.calls[1] = "remote"
            /\ e.reply.kind = "200"
            /\ 10 * Len(e.cleaned) < 8 * Len(e.text))
           => (e.by = "rule-based" /\ e.out = RulesOutput(e))

\* add_emotional_annotations (of the backend) or annotate_with_model (of
\* LocalAnnotator) has just returned to annotate
AnnotationReturned == pc \in {"annotate_text_pauses", "annotate_with_model"}

\* C2: after every failure of the remote annotation (timeout, connection
\* error, non-200 status, missing or empty response text, model not loaded)
\* the annotate operation returns exactly the rule-based annotator's output
\* for the same text and intensity, and no error reaches the caller.
C2_FailureYieldsRuleBasedResult ==
    /\ AnnotationReturned
       => \A k \in DOMAIN log :
             LET e == log[k]
             IN (Handled(e) /\ Failed(e))
                => /\ e.by = "rule-based"
                   /\ prog = "cli" => e.lucky \in Draws(e.text, local_intensity)
                   /\ e.out = RulesOutput(e)
    /\ (Answered /\ log # <<>> /\ \A k \in DOMAIN log : Failed(log[k]))
       => /\ response.kind = "ok"
          /\ response.annotated =
                LET rules == join([k \in DOMAIN log |-> RulesOutput(log[k])])
                IN IF PausesWanted THEN Paused(rules) ELSE rules

\* a remote model was configured, its call timed out, and the caller holds
\* the output of the rules, which changed the text
C2_Witness ==
    /\ Answered /\ prog = "server"
    /\ annotation_model # "None"
    /\ Len(log) = 1
    /\ log[1].reply.kind = "timeout"
    /\ log[1].out # log[1].text
    /\ response.kind = "ok"

\* C3: whenever a model backend was selected but the annotation returned was
\* produced by the rule-based fallback, the backend reported with the result
\* (model_used of the LocalAnnotator output) is rule-based.
C3_FallbackIsReportedAsRuleBased ==
    (/\ prog = "cli" /\ pc = "done"
     /\ annotator.requested # "rule-based"
     /\ log # <<>>
     /\ \A k \in DOMAIN log : log[k].by = "rule-based")
    => response.model_used = "rule-based"

\* C4: within one annotate call the remote service is called at most once
\* for one text or chunk; after a failure, a timeout or a rejected output
\* the next step is the rules, never a second remote call.
C4_RemoteCalledAtMostOnce ==
    /\ Len(log) <= IF prog = "cli" THEN Len(chunks) ELSE 1
    /\ \A k \in DOMAIN log :
          LET e == log[k]
          IN /\ e.text = IF prog = "cli" THEN chunks[k] ELSE request.text
             /\ e.calls \in {<<"rules">>, <<"remote">>, <<"remote", "rules">>,
                             <<"model">>, <<"model", "rules">>}
             /\ (Handled(e) /\ e.calls[1] = "remote"
                   /\ (Failed(e) \/ e.by = "rule-based"))
                => e.calls = <<"remote", "rules">>
             /\ ~Handled(e) => (inflight.active /\ e.calls = <<"remote">>)

\* the remote service answered with a status other than 200 and the rules
\* ran right after the one call
C4_Witness ==
    /\ Answered
    /\ Len(log) = 1
    /\ log[1].reply.kind = "non200"
    /\ log[1].calls = <<"remote", "rules">>

\* C5: every network call to the remote annotation service, the
\* availability probe at initialization as well as the generate call, is
\* made with a bounded timeout.
C5_EveryCallHasTimeout ==
    inflight.active => inflight.timeout # {}

\* C6: for empty text and any settings the annotate and the generate-audio
\* operations end in an error and invoke neither an annotation backend nor a
\* synthesis backend.
C6_EmptyTextIsRejected ==
    (/\ Backend \/ prog = "cli"
     /\ request.endpoint \in {"annotate_text", "generate_audio", "annotate"}
     /\ request.text = <<>>
     /\ pc \in {"responded", "done"})
    => /\ response.kind = "error"
       /\ log = <<>>
       /\ synth.generate_calls = 0

\* C7: at every synthesis entry point, when the model is not initialized or
\* a stage raises, the caller receives a failure and no audio, in particular
\* no placeholder audio, is produced or written.
C7_NoAudioOnSynthesisFailure ==
    /\ (Backend /\ synth.kind = "raise")
       => /\ response.kind = "error"
          /\ response.audio = "none"
          /\ synth.audio = "none"
    /\ (/\ prog = "dia" /\ pc = "done"
        /\ request.endpoint = "generate_audio"
        /\ (tts_model = "None" \/ synth.cause # <<>>))
       => /\ synth.kind = "raise"
          /\ synth.output = "none"

\* C8: when a stage of generate_tts_audio after the availability checks
\* raises, the call ends in a failure carrying the cause's message, no audio
\* bytes are returned, and generate is not invoked a second time.
C8_StageFailureIsSurfaced ==
    /\ Backend => synth.generate_calls <= 1
    /\ (Backend /\ synth.kind = "raise" /\ synth.cause # <<>>)
       => /\ pc = "responded"
          /\ synth.status = 500
          /\ synth.detail = <<"Failed to generate audio">> \o synth.cause
          /\ synth.audio = "none"
          /\ response.kind = "error"
          /\ response.audio = "none"

\* decoding raised after the one call of generate
C8_Witness ==
    /\ prog = "server"
    /\ synth.kind = "raise"
    /\ synth.cause = <<"decode failed">>
    /\ synth.generate_calls = 1
    /\ response.kind = "error"

\* C9: for non-empty text, annotate with addEmotions false and addPauses
\* false returns the text unchanged and calls no backend.
C9_NoOpWhenBothFlagsOff ==
    (/\ request.endpoint \in {"annotate_text", "annotate"}
     /\ request.text # <<>>
     /\ FlagIs("addEmotions", FALSE)
     /\ FlagIs("addPauses", FALSE))
    => /\ log = <<>>
       /\ inflight.url # "/api/generate"
       /\ Answered
          => /\ response.kind = "ok"
             /\ response.annotated = request.text
             /\ Len(response.annotated) = Len(request.text)

\* a remote model is at hand, the text has a sentence boundary, and the
\* caller holds the text as it was sent
C9_Witness ==
    /\ Answered /\ prog = "server"
    /\ annotation_model # "None"
    /\ Contains(request.text, <<".", " ">>)
    /\ FlagIs("addEmotions", FALSE)
    /\ FlagIs("addPauses", FALSE)
    /\ response.annotated = request.text

\* C10: with addEmotions false and addPauses true, annotate skips only the
\* emotion stage (no remote call, no emotion rule) and still inserts the
\* pause markers at the boundaries of the original text.
C10_PausesWithoutEmotions ==
    (/\ Answered
     /\ request.text # <<>>
     /\ FlagIs("addEmotions", FALSE)
     /\ FlagIs("addPauses", TRUE))
    => /\ log = <<>>
       /\ response.kind = "ok"
       /\ response.annotated = Paused(request.text)

\* the markers the pause stages insert
PauseMarkers == {PausesTag, BriefPauseTag}

\* two pause markers follow each other with nothing but whitespace between
DoublePause(s) ==
    \E i \in 1..Len(s) : \E a \in PauseMarkers, b \in PauseMarkers :
        /\ MatchAt(s, i, a)
        /\ MatchAt(s, SpaceRunEnd(s, i + Len(a)), b)

\* C11: pause insertion never double-inserts: the annotate result with
\* addEmotions true and addPauses true never holds two consecutive pause
\* markers, and running the pause stage on it once more changes nothing.
C11_PausesNeverDoubled ==
    (/\ Answered
     /\ FlagIs("addEmotions", TRUE)
     /\ FlagIs("addPauses", TRUE)
     /\ response.kind = "ok")
    => /\ ~DoublePause(response.annotated)
       /\ Paused(response.annotated) = response.annotated

\* C12: the rule-based annotator is deterministic: every rule-based result
\* is the one function of (text, intensity) in which every rule whose minimum
\* intensity is reached is applied to every match.
C12_RuleBasedIsDeterministic ==
    \A k \in 1..Len(log) :
        (Handled(log[k]) /\ log[k].by = "rule-based")
        => log[k].out =
             IF prog = "cli"
             THEN annotate_with_rules(log[k].text, local_intensity,
                                      DrawnRules(log[k].text, local_intensity))
             ELSE add_rule_based_annotations(log[k].text, backend_intensity)

\* the positions of the speaker markers of a text
MarkerPositions(s) ==
    {i \in 1..Len(s) : MatchAt(s, i, S1Tag) \/ MatchAt(s, i, S2Tag)}

\* two markers with no marker between them name the same speaker
AdjacentSameSpeaker(s) ==
    \E i \in MarkerPositions(s), j \in MarkerPositions(s) :
        /\ i < j
        /\ \A k \in MarkerPositions(s) : ~(i < k /\ k < j)
        /\ MatchAt(s, i, S1Tag) <=> MatchAt(s, j, S1Tag)

\* C17: the output of speaker-tag normalization begins with a speaker marker,
\* ends with a speaker marker, and no two consecutive markers of it name the
\* same speaker.
C17_SpeakerMarkersFrameTheText ==
    (Backend /\ synth.text # <<>>)
    => /\ startswith(synth.text, S1Tag) \/ startswith(synth.text, S2Tag)
       /\ endswith(synth.text, S1Tag) \/ endswith(synth.text, S2Tag)
       /\ ~AdjacentSameSpeaker(synth.text)

\* C19: the progress wrapper is installed on the shared model's forward only
\* between the start and the end of the generate step: whenever
\* generate_tts_audio is not at that step (it has returned, it has raised, or
\* a later request is being served) forward is the original forward.
C19_ForwardIsRestored ==
    forward = "wrapper" => (prog = "server" /\ pc = "tts_generate")

\* a generate step that raised, after which the original forward is in place
C19_Witness ==
    /\ prog = "server" /\ pc = "responded"
    /\ synth.generate_calls = 1 /\ synth.kind = "raise"
    /\ synth.cause = <<"generate failed">>
    /\ forward = "original"

\* the exceptions generate_tts_audio raises for a request with voice
\* "default": a model or processor that is not loaded, or a stage that raised
DefaultVoiceFailures ==
    {HTTPException(503, <<"TTS model not available. Please ensure Dia TTS is properly installed.">>),
     HTTPException(503, <<"TTS processor not available">>),
     HTTPException(503, <<"TTS tokenizer not available">>)}
    \cup {generation_failed(c) :
            c \in {<<"processor failed">>, <<"generate failed">>,
                   <<"decode failed">>, <<"save failed">>, <<"read failed">>,
                   Str(HTTPException(503,
                         <<"Dia TTS model does not support audio decoding">>))}}

\* C18: a synthesis request (with a text) whose settings.voice matches no voice sample never
\* fails because of the voice: the text synthesized and the token budget are
\* those of voice "default", the response is the audio unless the model is not
\* loaded or a stage raised, and the audio is produced when no stage raises.
C18_UnknownVoiceNeverFails ==
    (/\ Backend /\ pc = "responded"
     /\ request.endpoint = "generate_audio"
     /\ request.text # <<>>
     /\ FlagIs("voice", "nonexistent_id"))
    => /\ \/ response.kind = "ok" /\ response.audio = "speech"
          \/ \E e \in DefaultVoiceFailures :
                response = Failure(Wrapped("Failed to generate audio", e))
       /\ synth.kind = "return" => response.audio = "speech"
       /\ synth.text \in {<<>>,
                          IF prog = "server"
                          THEN preprocess_text_for_dia(request.text)
                          ELSE legacy_preprocess_text_for_dia(request.text)}

\* a request naming an unknown voice for which the audio was produced
C18_Witness ==
    /\ Backend /\ pc = "responded"
    /\ request.endpoint = "generate_audio"
    /\ FlagIs("voice", "nonexistent_id")
    /\ synth.generate_calls = 1
    /\ response.kind = "ok" /\ response.audio = "speech"

(***************************************************************************)
(* The annotation functions called on their own: a caller imports one of   *)
(* add_rule_based_annotations, add_natural_pauses (src/backend/backend.py),*)
(* LocalAnnotator.annotate_with_rules, LocalAnnotator.add_natural_pauses   *)
(* or LocalAnnotator.split_text_into_chunks and calls it once.  The        *)
(* arguments are in `request`, the function called in `caller`, a returned *)
(* text in annotated_text and returned chunks in `chunks`.                 *)
(***************************************************************************)
\* the text of end-to-end scenario A
ScenarioA ==
    <<"W","o","w",","," ","t","h","a","t","'","s"," ",
      "a","m","a","z","i","n","g","!">>

\* longest text given to the chunker, and largest max_length given to it
MaxTextLen == 5

\* longest processed text whose token budget is computed
MaxCharCount == 130

MaxMaxLength == 5

ChunkAlphabet == {"a", " ", ".", "!"}

ChunkTexts == UNION {[1..n -> ChunkAlphabet] : n \in 0..MaxTextLen}

FunctionIntensities == {0, 3, 5, 8, 10}

\* the arguments of one call: annotation functions get the texts of the
\* requests and the scenario text at every intensity, the chunker gets every
\* short text over the alphabet with every small max_length, the token budget
\* is computed for processed texts of every length up to MaxCharCount
FunctionCalls ==
    {[endpoint |-> "", text |-> t, settings |-> [emotionIntensity |-> i],
      max_length |-> ChunkMaxLength] :
        t \in Texts \cup {ScenarioA}, i \in FunctionIntensities}
    \cup
    {[endpoint |-> "", text |-> t, settings |-> [emotionIntensity |-> 5],
      max_length |-> n] :
        t \in ChunkTexts \cup {ScenarioA}, n \in 0..MaxMaxLength}
    \cup
    {[endpoint |-> "", text |-> [k \in 1..n |-> "a"],
      settings |-> [emotionIntensity |-> 5], max_length |-> ChunkMaxLength] :
        n \in 0..MaxCharCount}

FunctionsInit ==
    /\ prog = "library"
    /\ pc = "call"
    /\ request \in FunctionCalls
    /\ annotation_model = "None"
    /\ tts_model = "None"
    /\ tts_processor = "None"
    /\ forward = "original"
    /\ annotator = NoAnnotator
    /\ caller = "client"
    /\ chunks = <<>>
    /\ annotated_chunks = <<>>
    /\ annotated_text = <<>>
    /\ processed_text = <<>>
    /\ inflight = NoCall
    /\ log = <<>>
    /\ synth = NoSynth
    /\ response = NoResponse

call_add_rule_based_annotations ==
    /\ prog = "library" /\ pc = "call"
    /\ caller' = "add_rule_based_annotations"
    /\ annotated_text' = add_rule_based_annotations(
               request.text, request.settings.emotionIntensity)
    /\ pc' = "returned"
    /\ UNCHANGED <<prog, annotation_model, tts_model, tts_processor, forward,
                   annotator, request, chunks, annotated_chunks,
                   processed_text, inflight, log, synth, response>>

call_annotate_with_rules ==
    \E lucky \in Draws(request.text, request.settings.emotionIntensity) :
        /\ prog = "library" /\ pc = "call"
        /\ caller' = "annotate_with_rules"
        /\ annotated_text' = annotate_with_rules(
                   request.text, request.settings.emotionIntensity, lucky)
        /\ pc' = "returned"
        /\ UNCHANGED <<prog, annotation_model, tts_model, tts_processor, forward,
                       annotator, request, chunks, annotated_chunks,
                       processed_text, inflight, log, synth, response>>

call_add_natural_pauses ==
    /\ prog = "library" /\ pc = "call"
    /\ caller' = "add_natural_pauses"
    /\ annotated_text' = add_natural_pauses(request.text)
    /\ pc' = "returned"
    /\ UNCHANGED <<prog, annotation_model, tts_model, tts_processor, forward,
                   annotator, request, chunks, annotated_chunks,
                   processed_text, inflight, log, synth, response>>

call_LocalAnnotator_add_natural_pauses ==
    /\ prog = "library" /\ pc = "call"
    /\ caller' = "LocalAnnotator.add_natural_pauses"
    /\ annotated_text' = LocalAnnotator_add_natural_pauses(request.text)
    /\ pc' = "returned"
    /\ UNCHANGED <<prog, annotation_model, tts_model, tts_processor, forward,
                   annotator, request, chunks, annotated_chunks,
                   processed_text, inflight, log, synth, response>>

call_split_text_into_chunks ==
    /\ prog = "library" /\ pc = "call"
    /\ caller' = "split_text_into_chunks"
    /\ chunks' = split_text_into_chunks(request.text, request.max_length)
    /\ pc' = "returned"
    /\ UNCHANGED <<prog, annotation_model, tts_model, tts_processor, forward,
                   annotator, request, annotated_chunks, annotated_text,
                   processed_text, inflight, log, synth, response>>

\* `char_count = len(processed_text)` and the max_tokens computed from it
call_max_tokens ==
    /\ prog = "library" /\ pc = "call"
    /\ caller' = "max_tokens"
    /\ synth' = [synth EXCEPT !.text = request.text,
                              !.max_tokens = max_tokens(Len(request.text))]
    /\ pc' = "returned"
    /\ UNCHANGED <<prog, annotation_model, tts_model, tts_processor, forward,
                   annotator, request, chunks, annotated_chunks, annotated_text,
                   processed_text, inflight, log, response>>

FunctionsNext ==
    \/ call_max_tokens
    \/ call_add_rule_based_annotations
    \/ call_annotate_with_rules
    \/ call_add_natural_pauses
    \/ call_LocalAnnotator_add_natural_pauses
    \/ call_split_text_into_chunks

FunctionsSpec == FunctionsInit /\ [][FunctionsNext]_vars

\* the function named has returned
Returned(function) ==
    prog = "library" /\ pc = "returned" /\ caller = function

\* a terminator of s is followed, after whitespace only, by the (pauses) tag
PausesAfterTerminator(s, c) ==
    \E i \in 1..Len(s) :
        s[i] = c /\ MatchAt(s, SpaceRunEnd(s, i + 1), PausesTag)

\* C13: on the rule-based path with the text "Wow, that's amazing!" and
\* intensity 0.8 the output has the tag (gasps) directly after the word
\* "amazing" and the tag (pauses) after the sentence terminator "!".
C13_ScenarioA ==
    (/\ Returned("add_rule_based_annotations") \/ Returned("annotate_with_rules")
     /\ request.text = ScenarioA
     /\ request.settings.emotionIntensity = 8)
    => /\ Contains(annotated_text,
                   <<"a","m","a","z","i","n","g"," ">> \o GaspsTag)
       /\ PausesAfterTerminator(annotated_text, "!")

\* whitespace normalization: every run of whitespace becomes one space and
\* the whitespace at both ends is dropped
RECURSIVE CollapseSpaces(_, _)
CollapseSpaces(s, i) ==
    IF i > Len(s) THEN <<>>
    ELSE IF IsSpace(s[i]) THEN <<" ">> \o CollapseSpaces(s, SpaceRunEnd(s, i))
    ELSE <<s[i]>> \o CollapseSpaces(s, i + 1)

NormalizeWhitespace(s) == strip(CollapseSpaces(s, 1))

\* the sentences of a text: the non-blank pieces between runs of terminators
Sentences(text) == StripNonEmpty(SplitSentences(text, 1, <<>>))

\* C14: for every text and every max_length at least the length of the
\* text's longest sentence, the chunks of split_text_into_chunks joined with
\* single spaces are the text up to whitespace normalization (its terminators
\* are kept and none is added).
C14_ChunksRebuildTheText ==
    (/\ Returned("split_text_into_chunks")
     /\ \A k \in 1..Len(Sentences(request.text)) :
            Len(Sentences(request.text)[k]) <= request.max_length)
    => NormalizeWhitespace(join(chunks)) = NormalizeWhitespace(request.text)

\* the sentences of the chunks, in the order of the chunks
RECURSIVE ChunkSentences(_)
ChunkSentences(cs) ==
    IF cs = <<>> THEN <<>>
    ELSE Sentences(cs[1]) \o ChunkSentences(Tail(cs))

\* the length of sentence s as it stands in the text: with a terminator when
\* the text has any (a text without terminators is one bare sentence)
LengthInText(s, text) ==
    Len(s) + (IF \E i \in 1..Len(text) : text[i] \in Terminators THEN 1 ELSE 0)

\* C15: each chunk returned by split_text_into_chunks has length at most
\* max_length unless it consists of exactly one sentence that alone exceeds
\* max_length, and no sentence is split across two chunks (the sentences of
\* the chunks, in order, are the sentences of the text).
C15_ChunksAreBounded ==
    Returned("split_text_into_chunks")
    => /\ \A k \in 1..Len(chunks) :
            \/ Len(chunks[k]) <= request.max_length
            \/ /\ Len(Sentences(chunks[k])) = 1
               /\ LengthInText(Sentences(chunks[k])[1], request.text)
                      > request.max_length
       /\ ChunkSentences(chunks) = Sentences(request.text)

(***************************************************************************)
(* The generate step of generate_tts_audio of the current backend          *)
(* (src/backend/backend.py 357-391) call by call: tts_model.generate calls *)
(* tts_model.forward, which is forward_with_progress while the step lasts. *)
(* The run starts where tts_process_input has installed the wrapper and    *)
(* ends with tts_generate (the return or raise of generate and `finally`). *)
(***************************************************************************)
\* the most forward calls of one generate call that are followed
MaxForwardCalls == 100

\* `generated_tokens % 50 == 0`
ProgressEvery == 50

\* what generate passes to forward, and what the original forward returns
ForwardArgs == {"input_ids_a", "input_ids_b"}

ForwardResults == {"logits_a", "logits_b"}

\* time.time() - gen_start in whole seconds, at a progress record
Elapsed == {0, 2}

NoForwardCall == [args |-> "", forwarded |-> "", result |-> "", returned |-> ""]

\* the closure of the generate step: generated_tokens, the progress records
\* logged, and the last call of the wrapper
GenerateStep(text) ==
    [generated_tokens |-> 0, progress |-> <<>>, call |-> NoForwardCall]
    @@ [NoSynth EXCEPT !.text = text, !.max_tokens = max_tokens(Len(text))]

GenerateInit ==
    /\ prog = "server"
    /\ pc = "tts_generate"
    /\ annotation_model \in {"None", ModelName}
    /\ tts_model = "model"
    /\ tts_processor = "processor"
    /\ forward = "wrapper"
    /\ annotator = NoAnnotator
    /\ \E text \in Texts \ {<<>>} :
          /\ request = [endpoint |-> "generate_audio", text |-> text,
                        settings |-> [addEmotions |-> FALSE, addPauses |-> FALSE]]
          /\ processed_text = text
          /\ synth = GenerateStep(preprocess_text_for_dia(text))
    /\ caller = "client"
    /\ chunks = <<>>
    /\ annotated_chunks = <<>>
    /\ annotated_text = <<>>
    /\ inflight = NoCall
    /\ log = <<>>
    /\ response = NoResponse

\* the progress record logged at generated_tokens = n after `elapsed` seconds:
\* speed and eta are fractions <<numerator, denominator>>, 0 when the guard
\* `if elapsed > 0` / `if speed > 0` fails
ProgressRecord(n, elapsed) ==
    [generated_tokens |-> n,
     max_tokens |-> synth.max_tokens,
     progress_pct |-> <<n * 100, synth.max_tokens>>,
     speed |-> IF elapsed > 0 THEN <<n, elapsed>> ELSE <<0, 1>>,
     eta |-> IF elapsed > 0 /\ n > 0
             THEN <<(synth.max_tokens - n) * elapsed, n>> ELSE <<0, 1>>]

\* A faulty variant of forward_with_progress: the cadence is tested before
\* generated_tokens is incremented, so the first call logs a record.
forward_with_progress_early ==
    /\ prog = "server" /\ pc = "tts_generate" /\ forward = "wrapper"
    /\ synth.generated_tokens < MaxForwardCalls
    /\ \E args \in ForwardArgs, result \in ForwardResults, elapsed \in Elapsed :
          LET n == synth.generated_tokens + 1
          IN synth' = [synth EXCEPT
                 !.generated_tokens = n,
                 !.progress = IF synth.generated_tokens % ProgressEvery = 0
                              THEN Append(@, ProgressRecord(n, elapsed))
                              ELSE @,
                 !.call = [args |-> args, forwarded |-> args,
                           result |-> result, returned |-> result]]
    /\ UNCHANGED <<prog, pc, annotation_model, tts_model, tts_processor, forward,
                   annotator, request, caller, chunks, annotated_chunks,
                   annotated_text, processed_text, inflight, log, response>>

\* one call of tts_model.forward during generate: forward_with_progress
\* counts it, logs a record on every 50th, and returns
\* original_forward(*args, **kwargs)
forward_with_progress ==
    /\ prog = "server" /\ pc = "tts_generate" /\ forward = "wrapper"
    /\ synth.generated_tokens < MaxForwardCalls
    /\ \E args \in ForwardArgs, result \in ForwardResults, elapsed \in Elapsed :
          LET n == synth.generated_tokens + 1
          IN synth' = [synth EXCEPT
                 !.generated_tokens = n,
                 !.progress = IF n % ProgressEvery = 0
                              THEN Append(@, ProgressRecord(n, elapsed))
                              ELSE @,
                 !.call = [args |-> args, forwarded |-> args,
                           result |-> result, returned |-> result]]
    /\ UNCHANGED <<prog, pc, annotation_model, tts_model, tts_processor, forward,
                   annotator, request, caller, chunks, annotated_chunks,
                   annotated_text, processed_text, inflight, log, response>>

GenerateNext ==
    \/ forward_with_progress
    \/ tts_generate

GenerateSpec == GenerateInit /\ [][GenerateNext]_vars

\* C20: progress reporting does not alter the synthesis result: the wrapper
\* passes the arguments of every call on to the original forward and returns
\* what it returned, and a progress record is logged on every 50th forward
\* call and on no other call.
C20_ProgressIsASideChannel ==
    /\ synth.call.forwarded = synth.call.args
    /\ synth.call.returned = synth.call.result
    /\ Len(synth.progress) = synth.generated_tokens \div ProgressEvery
    /\ \A k \in 1..Len(synth.progress) :
          synth.progress[k].generated_tokens = k * ProgressEvery

\* a generate call whose 100 forward calls logged two progress records and
\* which then returned, with the original forward restored
C20_Witness ==
    /\ pc = "tts_decode"
    /\ forward = "original"
    /\ synth.generated_tokens = 2 * ProgressEvery
    /\ Len(synth.progress) = 2
    /\ synth.call.returned \in ForwardResults

\* what annotate_with_model returns for the chunk of log entry e, given that
\* entry's own reply and draws and nothing of any other chunk
OwnResult(e) ==
    IF annotator.model_type = "ollama"
    THEN annotate_with_ollama_response(e.text, local_intensity, e.reply, e.lucky)
    ELSE IF annotator.model # "None" /\ annotator.tokenizer # "None"
    THEN annotate_with_hf_model_result(e.text, local_intensity, e.reply, e.lucky)
    ELSE LocalRules(e.text, local_intensity, e.lucky)

\* LocalAnnotator.annotate has run its loop over the chunks to the end
Annotated ==
    /\ prog = "cli" /\ pc \in {"main_output", "done"}
    /\ get(request.settings, "addEmotions", FALSE)

\* every chunk was annotated exactly once, in the order of the chunks, with
\* the intensity of the settings, and on its own
EachChunkOnceAndOnItsOwn ==
    /\ chunks = split_text_into_chunks(request.text, ChunkMaxLength)
    /\ Len(log) = Len(chunks)
    /\ Len(annotated_chunks) = Len(chunks)
    /\ \A k \in 1..Len(chunks) :
          /\ log[k].text = chunks[k]
          /\ Len(SelectSeq(log[k].calls, LAMBDA c : c = "remote")) <= 1
          /\ log[k].out = OwnResult(log[k]).out
          /\ annotated_chunks[k] = log[k].out

\* C16 as stated: every chunk is annotated exactly once with the same
\* intensity and on its own, and the result of annotate is the annotated
\* chunks in the order of the chunks, separated by exactly one space.
C16_ResultIsTheJoinedChunks ==
    Annotated
    => /\ EachChunkOnceAndOnItsOwn
       /\ annotated_text = join(annotated_chunks)

\* C16 as amended: every chunk is annotated exactly once with the same
\* intensity and on its own, and the annotated chunks in the order of the
\* chunks, separated by exactly one space, are the result of annotate when
\* addPauses is off and the text given to add_natural_pauses when it is on.
C16_ChunksJoinedBeforePauses ==
    Annotated
    => /\ EachChunkOnceAndOnItsOwn
       /\ annotated_text =
             IF get(request.settings, "addPauses", FALSE)
             THEN LocalAnnotator_add_natural_pauses(join(annotated_chunks))
             ELSE join(annotated_chunks)

\* two chunks, the first annotated by the rules after its remote call failed
\* and the second by the remote model
C16_Witness ==
    /\ Annotated /\ pc = "done"
    /\ Len(chunks) = 2
    /\ log[1].reply.kind \in FailureKinds /\ log[1].by = "rule-based"
    /\ log[2].by = "remote"
    /\ response.annotated = annotated_text

(***************************************************************************)
(* Several /generate-audio requests in one server process                  *)
(* (src/backend/backend.py, run by uvicorn on one asyncio event loop).     *)
(* Every handler is a coroutine (`async def`) that runs on the loop's      *)
(* thread; the loop gives the thread to another task only when the running *)
(* one awaits something that suspends.  The awaits of the handlers         *)
(* (annotate_text, add_emotional_annotations, generate_tts_audio) are      *)
(* coroutines without a suspending await: requests.post and                *)
(* tts_model.generate block the thread.                                    *)
(* Here pc, request and synth are functions of the request, `caller` is    *)
(* the task that holds the loop's thread ("loop" when none does), and      *)
(* forward is "original" or the wrapper a request installed together with  *)
(* the forward that wrapper calls.                                         *)
(***************************************************************************)
\* the most requests in flight at once
MaxRequests == 3

TaskNames == <<"request1", "request2", "request3", "request4">>

Tasks == {TaskNames[i] : i \in 1..MaxRequests}

\* tts_model.forward as the wrappers installed over the original forward,
\* outermost first: <<>> is the original forward
OriginalForward == <<>>

\* forward_with_progress of request t, closed over original_forward
Wrapper(t, original_forward) == <<t>> \o original_forward

EventLoopInit ==
    /\ prog = "server"
    /\ pc = [t \in Tasks |-> "idle"]
    /\ caller = "loop"
    /\ forward = OriginalForward
    /\ tts_model \in {"model", "None"}
    /\ tts_processor = IF tts_model = "model" THEN "processor" ELSE "None"
    /\ annotation_model = "None"
    /\ annotator = NoAnnotator
    /\ request = [t \in Tasks |-> NoRequest]
    /\ synth = [t \in Tasks |-> [original_forward |-> OriginalForward]]
    /\ chunks = <<>>
    /\ annotated_chunks = <<>>
    /\ annotated_text = <<>>
    /\ processed_text = <<>>
    /\ inflight = NoCall
    /\ log = <<>>
    /\ response = NoResponse

\* a request arrives: its body is read while other tasks may hold the thread
request_arrives(t) ==
    /\ pc[t] = "idle"
    /\ \E text \in {<<>>, ScenarioA} :
          request' = [request EXCEPT ![t] =
                         [endpoint |-> "generate_audio", text |-> text,
                          settings |-> [addEmotions |-> FALSE,
                                        addPauses |-> FALSE]]]
    /\ pc' = [pc EXCEPT ![t] = "ready"]
    /\ UNCHANGED <<prog, annotation_model, tts_model, tts_processor, forward,
                   annotator, caller, chunks, annotated_chunks, annotated_text,
                   processed_text, inflight, log, synth, response>>

\* the event loop gives its thread to a task that can run: a new request's
\* handler is started, a suspended handler is resumed
loop_run(t) ==
    /\ caller = "loop"
    /\ pc[t] \notin {"idle", "responded"}
    /\ caller' = t
    /\ pc' = [pc EXCEPT ![t] = IF @ = "ready" THEN "generate_audio" ELSE @]
    /\ UNCHANGED <<prog, annotation_model, tts_model, tts_processor, forward,
                   annotator, request, chunks, annotated_chunks, annotated_text,
                   processed_text, inflight, log, synth, response>>

\* generate_audio and the checks of generate_tts_audio: an empty text and a
\* model that is not loaded end the handler, which gives the thread back
loop_generate_audio(t) ==
    /\ caller = t /\ pc[t] = "generate_audio"
    /\ IF request[t].text = <<>> \/ tts_model = "None"
       THEN /\ pc' = [pc EXCEPT ![t] = "responded"]
            /\ caller' = "loop"
       ELSE /\ pc' = [pc EXCEPT ![t] = "tts_process_input"]
            /\ UNCHANGED caller
    /\ UNCHANGED <<prog, annotation_model, tts_model, tts_processor, forward,
                   annotator, request, chunks, annotated_chunks, annotated_text,
                   processed_text, inflight, log, synth, response>>

\* A faulty variant of loop_tts_process_input: generate is awaited in a way
\* that suspends the handler (as with run_in_executor), so the loop gets its
\* thread back while the wrapper is installed.
loop_tts_process_input_suspending(t) ==
    /\ caller = t /\ pc[t] = "tts_process_input"
    /\ \E raised \in BOOLEAN :
          IF raised
          THEN /\ pc' = [pc EXCEPT ![t] = "responded"]
               /\ caller' = "loop"
               /\ UNCHANGED <<forward, synth>>
          ELSE /\ synth' = [synth EXCEPT ![t].original_forward = forward]
               /\ forward' = Wrapper(t, forward)
               /\ pc' = [pc EXCEPT ![t] = "tts_generate"]
               /\ caller' = "loop"
    /\ UNCHANGED <<prog, annotation_model, tts_model, tts_processor, annotator,
                   request, chunks, annotated_chunks, annotated_text,
                   processed_text, inflight, log, response>>

\* the processor call and `original_forward = tts_model.forward;
\* tts_model.forward = forward_with_progress`; the handler goes on to
\* generate without giving the thread back
loop_tts_process_input(t) ==
    /\ caller = t /\ pc[t] = "tts_process_input"
    /\ \E raised \in BOOLEAN :
          IF raised
          THEN /\ pc' = [pc EXCEPT ![t] = "responded"]
               /\ caller' = "loop"
               /\ UNCHANGED <<forward, synth>>
          ELSE /\ synth' = [synth EXCEPT ![t].original_forward = forward]
               /\ forward' = Wrapper(t, forward)
               /\ pc' = [pc EXCEPT ![t] = "tts_generate"]
               /\ UNCHANGED caller
    /\ UNCHANGED <<prog, annotation_model, tts_model, tts_processor, annotator,
                   request, chunks, annotated_chunks, annotated_text,
                   processed_text, inflight, log, response>>

\* tts_model.generate and `finally: tts_model.forward = original_forward`
loop_tts_generate(t) ==
    /\ caller = t /\ pc[t] = "tts_generate"
    /\ forward' = synth[t].original_forward
    /\ \E raised \in BOOLEAN :
          IF raised
          THEN /\ pc' = [pc EXCEPT ![t] = "responded"]
               /\ caller' = "loop"
          ELSE /\ pc' = [pc EXCEPT ![t] = "tts_decode"]
               /\ UNCHANGED caller
    /\ UNCHANGED <<prog, annotation_model, tts_model, tts_processor, annotator,
                   request, chunks, annotated_chunks, annotated_text,
                   processed_text, inflight, log, synth, response>>

\* decoding, saving and the return of the handler, which gives the thread back
loop_tts_finish(t) ==
    /\ caller = t /\ pc[t] = "tts_decode"
    /\ pc' = [pc EXCEPT ![t] = "responded"]
    /\ caller' = "loop"
    /\ UNCHANGED <<prog, annotation_model, tts_model, tts_processor, forward,
                   annotator, request, chunks, annotated_chunks, annotated_text,
                   processed_text, inflight, log, synth, response>>

EventLoopNext ==
    \E t \in Tasks :
        \/ request_arrives(t)
        \/ loop_run(t)
        \/ loop_generate_audio(t)
        \/ loop_tts_process_input(t)
        \/ loop_tts_generate(t)
        \/ loop_tts_finish(t)

EventLoopSpec == EventLoopInit /\ [][EventLoopNext]_vars

\* the requests between installing and restoring their wrapper
InCriticalSection == {t \in Tasks : pc[t] = "tts_generate"}

\* C21: of the requests handled concurrently by one server process at most
\* one is between installing and restoring the progress wrapper at any time,
\* and no request installs its wrapper over the wrapper of another: an
\* installed wrapper calls the original forward, and it is installed exactly
\* while its request is in the critical section.
C21_OneRequestInCriticalSection ==
    /\ Cardinality(InCriticalSection) <= 1
    /\ Len(forward) <= 1
    /\ InCriticalSection = {forward[i] : i \in 1..Len(forward)}

\* one request is in the critical section while another has arrived and
\* waits for the thread
C21_Witness ==
    \E t \in Tasks, u \in Tasks :
        /\ t # u
        /\ pc[t] = "tts_generate" /\ caller = t
        /\ pc[u] = "ready"
        /\ forward = Wrapper(t, OriginalForward)

(***************************************************************************)
(* The characters of a text outside its parenthesised tags                 *)
(***************************************************************************)
\* position i of s lies in a parenthesised tag, parentheses included
InTag(s, i) ==
    Cardinality({j \in 1..i : s[j] = "("})
        > Cardinality({j \in 1..(i - 1) : s[j] = ")"})

\* s without its parenthesised tags and without whitespace
WithoutTags(s) ==
    LET kept == {i \in 1..Len(s) : ~InTag(s, i) /\ ~IsSpace(s[i])}
    IN [n \in 1..Cardinality(kept) |->
           s[CHOOSE k \in kept : Cardinality({j \in kept : j <= k}) = n]]

\* every text of the operation was annotated by the rules (or by none)
RuleBasedPath ==
    \A k \in 1..Len(log) : Handled(log[k]) /\ log[k].by = "rule-based"

\* C22: rule-based annotation only inserts markers: the result of the
\* rule-based annotate path without its parenthesised tags is the input's
\* characters in the same order, up to whitespace.
C22_RuleBasedOnlyInsertsMarkers ==
    (Answered /\ RuleBasedPath /\ response.kind = "ok")
    => WithoutTags(response.annotated) = WithoutTags(request.text)

\* a character of `set` in s is followed by whitespace
HasPunctSpace(s, set) ==
    \E j \in 1..(Len(s) - 1) : s[j] \in set /\ IsSpace(s[j + 1])

\* the emotion rules of annotate_with_rules that insert `tag` and match in s
RulesFor(tag, s) ==
    {r \in DOMAIN emotion_rules :
        /\ emotion_rules[r].tag = tag
        /\ \E i \in 1..Len(s) : AltsAt(s, i, emotion_rules[r].alts) # {}}

\* C23: in the rule-based annotator the (pauses) markers after a sentence
\* terminator are inserted exactly when intensity > 0.3, the (brief pause)
\* markers after clause punctuation exactly when intensity > 0.7, and no
\* emotion tag of a rule is inserted below that rule's minimum intensity.
C23_PauseTiersFollowThresholds ==
    (Returned("add_rule_based_annotations") \/ Returned("annotate_with_rules"))
    => LET intensity == request.settings.emotionIntensity
       IN /\ HasPunctSpace(request.text, Terminators)
             => (Contains(annotated_text, PausesTag) <=> intensity > 3)
          /\ HasPunctSpace(request.text, ClausePunct)
             => (Contains(annotated_text, BriefPauseTag) <=> intensity > 7)
          /\ Returned("annotate_with_rules")
             => \A r \in DOMAIN emotion_rules :
                   Contains(annotated_text, emotion_rules[r].tag)
                   => \E q \in RulesFor(emotion_rules[r].tag, request.text) :
                         intensity >= emotion_rules[q].min

\* C24: for a processed text of n characters the token budget passed to
\* generation is max(1536, min(25 * n, 3072)): it lies in [1536, 3072], it is
\* 25 * n wherever that lies in the interval and the nearer end of the
\* interval elsewhere, and no shorter text gets a larger budget.
C24_TokenBudgetIsClamped ==
    Returned("max_tokens")
    => LET n == Len(synth.text)
           budget == synth.max_tokens
       IN /\ budget \in 1536..3072
          /\ 25 * n <= 1536 => budget = 1536
          /\ (1536 <= 25 * n /\ 25 * n <= 3072) => budget = 25 * n
          /\ 25 * n >= 3072 => budget = 3072
          /\ \A m \in 0..n : max_tokens(m) <= budget

\* a text of 100 characters gets 2500 tokens
C24_Witness ==
    /\ Returned("max_tokens")
    /\ Len(synth.text) = 100
    /\ synth.max_tokens = 2500

\* startup_event has made its probe, which returned or raised
ProbeMade == "reply" \in DOMAIN inflight /\ inflight.url = "/api/version"

\* C25: after startup the remote annotation backend is marked available only
\* if a model name is configured (so that the probe is made) and the probe
\* answered with status 200, and is marked unavailable in every other case;
\* while it is unavailable add_emotional_annotations makes no network call
\* and returns the rule-based annotation.
C25_AvailabilityFollowsTheProbe ==
    /\ (Backend /\ pc = "startup_tts")
       => (annotation_model = ModelName
              <=> (ProbeMade /\ inflight.reply = "200"))
    /\ (Backend /\ pc \notin {"boot", "startup_probe"}
           /\ annotation_model = "None")
       => /\ ~inflight.active
          /\ \A k \in 1..Len(log) :
                /\ log[k].calls = <<"rules">>
                /\ log[k].by = "rule-based"
                /\ log[k].out = add_rule_based_annotations(log[k].text,
                                                           backend_intensity)

\* the probe of a configured model timed out and the backend is unavailable
C25_Witness ==
    /\ Backend /\ pc = "startup_tts"
    /\ ProbeMade /\ inflight.reply = "timeout"
    /\ annotation_model = "None"

\* a /generate-audio request is being handled
GenerateRequest == Backend /\ request.endpoint = "generate_audio"

\* `settings.get('addEmotions', True) or settings.get('addPauses', True)`
AnnotationWanted ==
    \/ get(request.settings, "addEmotions", TRUE)
    \/ get(request.settings, "addPauses", TRUE)

\* where the handler is while annotate_text runs for it
AnnotationStage ==
    {"annotate_text", "add_emotional_annotations", "await_generate",
     "annotate_text_pauses"}

\* where the handler is once preprocess_text_for_dia has returned
SynthesisStage == {"tts_process_input", "tts_generate", "tts_decode", "tts_save"}

\* the text annotate_text returns for the request, once it has run to its end
AnnotationResult ==
    LET emotions == IF get(request.settings, "addEmotions", TRUE)
                    THEN log[Len(log)].out ELSE request.text
    IN IF get(request.settings, "addPauses", TRUE)
       THEN add_natural_pauses(emotions) ELSE emotions

\* preprocess_text_for_dia of the revision
Preprocessed(text) ==
    IF prog = "server" THEN preprocess_text_for_dia(text)
    ELSE legacy_preprocess_text_for_dia(text)

\* C26: in generate_audio annotation runs if and only if addEmotions or
\* addPauses is set (both default to true) and has completed before the
\* speaker-tag preprocessing, which has completed before the synthesis model
\* is invoked; the model gets exactly the preprocessed form of the annotated
\* text and is invoked at most once per request.
C26_StagesRunInOrder ==
    GenerateRequest
    => /\ pc \in AnnotationStage
          => /\ AnnotationWanted
             /\ synth = NoSynth
             /\ processed_text = <<>>
       /\ (pc \in {"generate_tts_audio"} \cup SynthesisStage
              \/ (pc = "responded" /\ synth # NoSynth))
          => /\ AnnotationWanted
                => /\ get(request.settings, "addEmotions", TRUE)
                      => (Len(log) = 1 /\ Handled(log[1]))
                   /\ processed_text = AnnotationResult
             /\ ~AnnotationWanted
                => (log = <<>> /\ processed_text = request.text)
       /\ pc = "generate_tts_audio" => synth = NoSynth
       /\ pc \in SynthesisStage => synth.text = Preprocessed(processed_text)
       /\ synth.generate_calls <= 1
       /\ synth.generate_calls = 1
          => /\ pc \in {"tts_decode", "tts_save", "responded"}
             /\ synth.text = Preprocessed(processed_text)

\* the model was invoked on a text that annotation and preprocessing changed
C26_Witness ==
    /\ GenerateRequest /\ pc = "tts_decode"
    /\ synth.generate_calls = 1
    /\ get(request.settings, "addEmotions", TRUE)
    /\ processed_text # request.text
    /\ synth.text # processed_text

\* C27: error kinds reach the caller of annotate_text and generate_audio as
\* they were raised: empty text ends in the validation error (status 400,
\* "Text is required") and an unavailable synthesis backend in the
\* unavailable error (status 503); neither arrives as the generic failure
\* (status 500).
C27_ErrorKindsArePreserved ==
    (Backend /\ pc = "responded")
    => /\ request.text = <<>>
          => (response.kind = "error" /\ response.status = 400
                 /\ response.detail = <<"Text is required">>)
       /\ (synth.kind = "raise" /\ synth.status = 503)
          => (response.kind = "error" /\ response.status = 503)

\* C28: every remote output that add_emotional_annotations of
\* src/backend/backend.py returns instead of the rule-based fallback contains
\* the original text (case-insensitively) and is at most 1.5 times as long as
\* the original text.
C28_ReturnedRemoteOutputIsValidated ==
    prog = "server"
    => \A k \in 1..Len(log) :
          (Handled(log[k]) /\ log[k].by = "remote")
          => /\ Contains(lower(log[k].out), lower(log[k].text))
             /\ 2 * Len(log[k].out) <= 3 * Len(log[k].text)

\* C29: the temporary audio file created by generate_tts_audio is removed
\* on every path out of the call: once the call has returned or raised,
\* also when saving or reading the audio failed, no temporary file that it
\* created remains.
C29_TempFileIsRemoved ==
    (prog = "server" /\ pc = "responded")
    => synth.temp_file # "exists"

\* C30: split_text_into_chunks loses nothing and invents nothing: for a
\* text with at least one non-empty sentence the sentences read across the
\* returned chunks in order are the non-empty sentences of the text, each
\* once and in the order of the text, the returned list is not empty and no
\* returned chunk is empty.
C30_ChunksHoldEverySentenceOnce ==
    (Returned("split_text_into_chunks") /\ Sentences(request.text) # <<>>)
    => /\ chunks # <<>>
       /\ \A k \in 1..Len(chunks) : chunks[k] # <<>>
       /\ Len(ChunkSentences(chunks)) = Len(Sentences(request.text))
       /\ \A n \in 1..Len(Sentences(request.text)) :
             ChunkSentences(chunks)[n] = Sentences(request.text)[n]

\* three sentences came back in two chunks, the first of which holds two
C30_Witness ==
    /\ Returned("split_text_into_chunks")
    /\ Len(Sentences(request.text)) = 3
    /\ Len(chunks) = 2
    /\ Len(Sentences(chunks[1])) = 2

====
